---- MODULE Spec2Model ----
(***************************************************************************)
(* A model of pyasdl: the scanner (tokenize), the recursive-descent parser *)
(* (ASDLParser), the generator-based tree walk (NodeVisitor.visit), the    *)
(* semantic checker (Checker / check_tree) and the code generator          *)
(* (PythonCodeGenerator / generate_code).                                  *)
(*                                                                         *)
(* Text is a sequence of one-character strings; an identifier is the       *)
(* sequence of its characters.  Python's None is the empty tuple, except   *)
(* for a field's quantifier, where it is the string "None".                *)
(***************************************************************************)
EXTENDS Integers, Sequences, FiniteSets, TLC

VARIABLES
    call,       \* the entry point that was called
    pc,         \* where the call is: in the parser, in a walk, between them, done
    source,     \* the text given to parse / generate_code
    scan,       \* the tokenize generator: its line and column cursor
    par,        \* the ASDLParser: cur_token, the locals of its rules, its position
    tree,       \* the Module that parse returned, or that was handed to a walk
    visitor,    \* the class of the visitor that walks the tree
    behaviour,  \* for a user-written visitor: what its procedure does at each node
    stack,      \* NodeVisitor.visit: the stack of suspended visit procedures
    result,     \* NodeVisitor.visit: the value the next send() carries
    exception,  \* NodeVisitor.visit: the exception the next throw() carries
    chk,        \* the Checker instance
    gen,        \* the PythonCodeGenerator instance
    log,        \* history: what the walk did, in order
    outcome     \* what the call gave its caller

vars == <<call, pc, source, scan, par, tree, visitor, behaviour, stack, result,
          exception, chk, gen, log, outcome>>

None == <<>>
QNone == "None"

-----------------------------------------------------------------------------
(* Characters *)

LowerChars == {"a","b","c","d","e","f","g","h","i","j","k","l","m",
               "n","o","p","q","r","s","t","u","v","w","x","y","z"}
UpperChars == {"A","B","C","D","E","F","G","H","I","J","K","L","M",
               "N","O","P","Q","R","S","T","U","V","W","X","Y","Z"}

IsSpace(c) == c \in {" ", "\t"}
IsAlpha(c) == c \in LowerChars \cup UpperChars
IsUpper(c) == c \in UpperChars

KwModule == <<"m","o","d","u","l","e">>
KwAttributes == <<"a","t","t","r","i","b","u","t","e","s">>

-----------------------------------------------------------------------------
(* Exceptions *)

\* The lineno of an error raised without one ("<unknown>"); lines count from 1.
Unknown == 0

ASDLSyntaxError(msg, lineno) ==
    [type |-> "ASDLSyntaxError", msg |-> msg, lineno |-> lineno]

StopIteration == [type |-> "StopIteration", msg |-> None, lineno |-> Unknown]
AttributeError == [type |-> "AttributeError", msg |-> None, lineno |-> Unknown]

Running == [kind |-> "running", value |-> None]
Returned(v) == [kind |-> "returned", value |-> v]
Raised(e) == [kind |-> "raised", value |-> e]

-----------------------------------------------------------------------------
(* Scanner *)

OPERATOR_TOKEN_TABLE ==
    [c \in {"=", ",", "?", "|", "(", ")", "*", "{", "}"} |->
        CASE c = "=" -> "EQUALS"
          [] c = "," -> "COMMA"
          [] c = "?" -> "QUESTION"
          [] c = "|" -> "PIPE"
          [] c = "(" -> "LPAREN"
          [] c = ")" -> "RPAREN"
          [] c = "*" -> "ASTERISK"
          [] c = "{" -> "LBRACE"
          [] c = "}" -> "RBRACE"]

Token(kind, value, lineno) == [kind |-> kind, value |-> value, lineno |-> lineno]

\* The _empty sentinel: an object with no kind, value or lineno attribute.
Empty == [kind |-> "_empty", value |-> None, lineno |-> Unknown]

\* str.splitlines, for texts whose only line boundary is "\n": a line ends at
\* each "\n", and the text after the last "\n" is a line when it is not empty.
LineBreaks(s) == {i \in 1..Len(s) : s[i] = "\n"}

SplitLines(s) ==
    LET breaks == LineBreaks(s)
        nth(k) == CHOOSE i \in breaks : Cardinality({j \in breaks : j <= i}) = k
        last == IF breaks = {} THEN 0 ELSE nth(Cardinality(breaks))
        count == Cardinality(breaks) + (IF last < Len(s) THEN 1 ELSE 0)
        start(k) == IF k = 1 THEN 1 ELSE nth(k - 1) + 1
        stop(k) == IF k <= Cardinality(breaks) THEN nth(k) - 1 ELSE Len(s)
    IN [k \in 1..count |-> SubSeq(s, start(k), stop(k))]

\* An end of the identifier that takes letters only.
IdEndAtUnderscore(line, id_start) ==
    LET stops == {idx \in (id_start + 1)..(Len(line) - 1) : ~IsAlpha(line[idx + 1])}
    IN IF stops = {} THEN Len(line)
       ELSE CHOOSE idx \in stops : \A j \in stops : idx <= j

\* The end of the identifier that starts at 0-based column id_start.
IdEnd(line, id_start) ==
    LET stops == {idx \in (id_start + 1)..(Len(line) - 1) :
                     ~(IsAlpha(line[idx + 1]) \/ line[idx + 1] = "_")}
    IN IF stops = {} THEN Len(line)
       ELSE CHOOSE idx \in stops : \A j \in stops : idx <= j

\* A scanner for which one dash already starts a comment.
StartsWithCommentSingleDash(line, col_no) ==
    /\ col_no + 1 <= Len(line)
    /\ line[col_no + 1] = "-"

\* A scanner that knows no comment.
StartsWithCommentNever(line, col_no) == FALSE

StartsWithComment(line, col_no) ==
    /\ col_no + 2 <= Len(line)
    /\ line[col_no + 1] = "-"
    /\ line[col_no + 2] = "-"

NewScan == [line_no |-> 1, col_no |-> 0]

\* One next() on the tokenize generator: it runs to its next yield, to its
\* end, or to the raise.
RECURSIVE ScanFrom(_, _, _)
ScanFrom(lines, line_no, col_no) ==
    IF line_no > Len(lines)
    THEN [kind |-> "stop", tok |-> Empty, exc |-> None,
          scan |-> [line_no |-> line_no, col_no |-> 0]]
    ELSE LET line == lines[line_no] IN
      IF col_no >= Len(line) THEN ScanFrom(lines, line_no + 1, 0)
      ELSE LET char == line[col_no + 1] IN
        IF IsSpace(char) THEN ScanFrom(lines, line_no, col_no + 1)
        ELSE IF IsAlpha(char) THEN
            LET end == IdEnd(line, col_no)
                id_kind == IF IsUpper(char) THEN "CONSTRUCTOR_ID" ELSE "TYPE_ID"
            IN [kind |-> "token",
                tok |-> Token(id_kind, SubSeq(line, col_no + 1, end), line_no),
                exc |-> None,
                scan |-> [line_no |-> line_no, col_no |-> end]]
        ELSE IF StartsWithComment(line, col_no) THEN ScanFrom(lines, line_no + 1, 0)
        ELSE IF char \in DOMAIN OPERATOR_TOKEN_TABLE THEN
            [kind |-> "token",
             tok |-> Token(OPERATOR_TOKEN_TABLE[char], <<char>>, line_no),
             exc |-> None,
             scan |-> [line_no |-> line_no, col_no |-> col_no + 1]]
        ELSE [kind |-> "error", tok |-> Empty,
              exc |-> ASDLSyntaxError([text |-> "Invalid operator", char |-> char], line_no),
              scan |-> [line_no |-> line_no, col_no |-> col_no]]

tokenize(src, sc) == ScanFrom(SplitLines(src), sc.line_no, sc.col_no)

\* list(tokenize(src)): every token of the text, or the tokens before the error.
RECURSIVE TokensFrom(_, _)
TokensFrom(src, sc) ==
    LET n == tokenize(src, sc) IN
    IF n.kind = "token" THEN <<n.tok>> \o TokensFrom(src, n.scan) ELSE <<>>

RECURSIVE ScanEnd(_, _)
ScanEnd(src, sc) ==
    LET n == tokenize(src, sc) IN
    IF n.kind = "token" THEN ScanEnd(src, n.scan) ELSE n.kind

AllTokens(src) == TokensFrom(src, NewScan)
TokenizesWhole(src) == ScanEnd(src, NewScan) = "stop"

-----------------------------------------------------------------------------
(* Meta-AST *)

Module(name, dfns) == [cls |-> "Module", name |-> name, dfns |-> dfns]
Type(name, value) == [cls |-> "Type", name |-> name, value |-> value]
Sum(types, attributes) == [cls |-> "Sum", types |-> types, attributes |-> attributes]
Product(fields, attributes) ==
    [cls |-> "Product", fields |-> fields, attributes |-> attributes]
Constructor(name, fields) == [cls |-> "Constructor", name |-> name, fields |-> fields]
Field(type, name, quantifier) ==
    [cls |-> "Field", type |-> type, name |-> name, quantifier |-> quantifier]

-----------------------------------------------------------------------------
(* Parser *)

TOKEN_TO_FIELD_QUANTIFIER ==
    [k \in {"ASTERISK", "QUESTION"} |-> IF k = "ASTERISK" THEN "SEQ" ELSE "OPT"]

ID_KINDS == {"TYPE_ID", "CONSTRUCTOR_ID"}

NewParser ==
    [pc |-> "parse", cur_token |-> Empty, name |-> None, defs |-> <<>>,
     typename |-> None, sumlist |-> <<>>, cname |-> None, caller |-> "none",
     fields |-> <<>>, ftype |-> None, fquant |-> QNone, pfields |-> <<>>]

\* What a parser step gives: the exception it raised, or the parser and the
\* scanner after it.
Step(p, sc) == [exc |-> None, par |-> p, scan |-> sc]
Throw(e, p, sc) == [exc |-> e, par |-> p, scan |-> sc]

\* advance(), then go on at position `to`.
advance(p, sc, to) ==
    IF p.cur_token = Empty THEN Throw(AttributeError, p, sc)
    ELSE LET n == tokenize(source, sc) IN
         IF n.kind = "error" THEN Throw(n.exc, p, n.scan)
         ELSE Step([p EXCEPT !.cur_token = n.tok, !.pc = to], n.scan)

\* at_kind(kinds) and at_keyword(keyword) read attributes of cur_token.
at_kind(p, kinds) == p.cur_token.kind \in kinds

at_keyword(p, keyword) == p.cur_token.kind = "TYPE_ID" /\ p.cur_token.value = keyword

\* A match that steps over a token of another kind instead of failing.
matchAnyKind(p, sc, kinds, to) ==
    IF p.cur_token = Empty THEN Throw(AttributeError, p, sc)
    ELSE advance(p, sc, to)

\* A match that takes the next token from the scanner before it looks at
\* the current one.
matchReadsAhead(p, sc, kinds, to) ==
    IF p.cur_token = Empty THEN Throw(AttributeError, p, sc)
    ELSE IF advance(p, sc, to).exc # None \/ at_kind(p, kinds) THEN advance(p, sc, to)
    ELSE Throw(ASDLSyntaxError([text |-> "Unmatched", expected |-> kinds,
                                found |-> p.cur_token.kind],
                               p.cur_token.lineno), p, advance(p, sc, to).scan)

\* match(kinds), then go on at position `to`.
match(p, sc, kinds, to) ==
    IF p.cur_token = Empty THEN Throw(AttributeError, p, sc)
    ELSE IF at_kind(p, kinds) THEN advance(p, sc, to)
    ELSE Throw(ASDLSyntaxError([text |-> "Unmatched", expected |-> kinds,
                                found |-> p.cur_token.kind],
                               p.cur_token.lineno), p, sc)

\* A parser step takes effect: the exception leaves parse, or the parser goes on.
Take(r) ==
    /\ pc = "parse"
    /\ scan' = r.scan
    /\ IF r.exc # None
       THEN /\ par' = [r.par EXCEPT !.pc = "raised"]
            /\ outcome' = Raised(r.exc)
            /\ pc' = "done"
       ELSE /\ par' = r.par
            /\ outcome' = outcome
            /\ pc' = pc
    /\ UNCHANGED <<call, source, tree, visitor, behaviour, stack, result,
                   exception, chk, gen, log>>

\* ASDLParser.parse: prime the current token.
Parse ==
    /\ par.pc = "parse"
    /\ LET n == tokenize(source, scan) IN
       Take(IF n.kind = "stop" THEN Throw(StopIteration, par, n.scan)
            ELSE IF n.kind = "error" THEN Throw(n.exc, par, n.scan)
            ELSE Step([par EXCEPT !.cur_token = n.tok, !.pc = "parse_module"], n.scan))

ParseModule ==
    /\ par.pc = "parse_module"
    /\ Take(IF par.cur_token = Empty THEN Throw(AttributeError, par, scan)
            ELSE IF ~at_keyword(par, KwModule)
            THEN Throw(ASDLSyntaxError([text |-> "Expected module",
                                        found |-> par.cur_token.value],
                                       par.cur_token.lineno), par, scan)
            ELSE advance(par, scan, "module_name"))

ParseModuleName ==
    /\ par.pc = "module_name"
    /\ Take(match([par EXCEPT !.name = par.cur_token.value], scan, ID_KINDS,
                  "module_lbrace"))

ParseModuleLBrace ==
    /\ par.pc = "module_lbrace"
    /\ Take(match([par EXCEPT !.defs = <<>>], scan, {"LBRACE"}, "parse_definitions"))

\* A parse_definitions whose loop body consumes nothing.
ParseDefinitionsIdle ==
    /\ par.pc = "parse_definitions"
    /\ Take(IF par.cur_token = Empty THEN Throw(AttributeError, par, scan)
            ELSE IF at_kind(par, {"TYPE_ID"}) THEN Step(par, scan)
            ELSE Step([par EXCEPT !.pc = "module_rbrace"], scan))

\* parse_definitions: the loop test, and the advance over the type's name.
ParseDefinitions ==
    /\ par.pc = "parse_definitions"
    /\ Take(IF par.cur_token = Empty THEN Throw(AttributeError, par, scan)
            ELSE IF at_kind(par, {"TYPE_ID"})
            THEN advance([par EXCEPT !.typename = par.cur_token.value], scan,
                         "definition_equals")
            ELSE Step([par EXCEPT !.pc = "module_rbrace"], scan))

ParseDefinitionEquals ==
    /\ par.pc = "definition_equals"
    /\ Take(match(par, scan, {"EQUALS"}, "parse_type"))

ParseType ==
    /\ par.pc = "parse_type"
    /\ Take(IF par.cur_token = Empty THEN Throw(AttributeError, par, scan)
            ELSE IF at_kind(par, {"LPAREN"})
            THEN Step([par EXCEPT !.caller = "parse_product", !.pc = "parse_fields"], scan)
            ELSE Step([par EXCEPT !.sumlist = <<>>, !.pc = "parse_sum"], scan))

\* parse_sum: match the constructor's name.
ParseSum ==
    /\ par.pc = "parse_sum"
    /\ Take(match([par EXCEPT !.cname = par.cur_token.value], scan,
                  {"CONSTRUCTOR_ID"}, "parse_optional_fields"))

ParseOptionalFields ==
    /\ par.pc = "parse_optional_fields"
    /\ Take(IF par.cur_token = Empty THEN Throw(AttributeError, par, scan)
            ELSE IF at_kind(par, {"LPAREN"})
            THEN Step([par EXCEPT !.caller = "parse_sum", !.pc = "parse_fields"], scan)
            ELSE Step([par EXCEPT
                         !.sumlist = Append(@, Constructor(par.cname, <<>>)),
                         !.pc = "sum_pipe"], scan))

\* parse_sum: the loop over "|".
ParseSumPipe ==
    /\ par.pc = "sum_pipe"
    /\ Take(IF par.cur_token = Empty THEN Throw(AttributeError, par, scan)
            ELSE IF at_kind(par, {"PIPE"}) THEN advance(par, scan, "parse_sum")
            ELSE Step([par EXCEPT !.caller = "parse_sum",
                                  !.pc = "parse_optional_attributes"], scan))

\* A parse_sum that gives the constructors last to first.
TypeValueConstructorsBackwards(p, attributes) ==
    IF p.caller = "parse_sum"
    THEN Sum([i \in 1..Len(p.sumlist) |-> p.sumlist[Len(p.sumlist) + 1 - i]], attributes)
    ELSE Product(p.pfields, attributes)

\* The value of the type being defined, given its attributes; appended to defs.
TypeValue(p, attributes) ==
    IF p.caller = "parse_sum" THEN Sum(p.sumlist, attributes)
    ELSE Product(p.pfields, attributes)

ParseOptionalAttributes ==
    /\ par.pc = "parse_optional_attributes"
    /\ Take(IF par.cur_token = Empty THEN Throw(AttributeError, par, scan)
            ELSE IF at_keyword(par, KwAttributes)
            THEN advance([par EXCEPT
                            !.caller = IF @ = "parse_sum" THEN "sum_attributes"
                                       ELSE "product_attributes"],
                         scan, "parse_fields")
            ELSE Step([par EXCEPT
                         !.defs = Append(@, Type(par.typename, TypeValue(par, <<>>))),
                         !.pc = "parse_definitions"], scan))

ParseFields ==
    /\ par.pc = "parse_fields"
    /\ Take(match([par EXCEPT !.fields = <<>>], scan, {"LPAREN"}, "fields_loop"))

\* parse_fields: the loop test, and the advance over the field's type.
ParseFieldsLoop ==
    /\ par.pc = "fields_loop"
    /\ Take(IF par.cur_token = Empty THEN Throw(AttributeError, par, scan)
            ELSE IF at_kind(par, {"TYPE_ID"})
            THEN advance([par EXCEPT !.ftype = par.cur_token.value], scan,
                         "parse_optional_field_quantifier")
            ELSE Step([par EXCEPT !.pc = "fields_rparen"], scan))

\* A parse_optional_field_quantifier that takes "?" for a sequence too.
ParseOptionalFieldQuantifierAlwaysSeq ==
    /\ par.pc = "parse_optional_field_quantifier"
    /\ Take(IF par.cur_token = Empty THEN Throw(AttributeError, par, scan)
            ELSE IF par.cur_token.kind \in DOMAIN TOKEN_TO_FIELD_QUANTIFIER
            THEN advance([par EXCEPT !.fquant = "SEQ"], scan, "field_id")
            ELSE Step([par EXCEPT !.fquant = QNone, !.pc = "field_id"], scan))

ParseOptionalFieldQuantifier ==
    /\ par.pc = "parse_optional_field_quantifier"
    /\ Take(IF par.cur_token = Empty THEN Throw(AttributeError, par, scan)
            ELSE IF par.cur_token.kind \in DOMAIN TOKEN_TO_FIELD_QUANTIFIER
            THEN advance([par EXCEPT
                            !.fquant = TOKEN_TO_FIELD_QUANTIFIER[par.cur_token.kind]],
                         scan, "field_id")
            ELSE Step([par EXCEPT !.fquant = QNone, !.pc = "field_id"], scan))

\* parse_fields: the field's optional name; the field is appended.
ParseFieldId ==
    /\ par.pc = "field_id"
    /\ Take(IF par.cur_token = Empty THEN Throw(AttributeError, par, scan)
            ELSE IF at_kind(par, ID_KINDS)
            THEN advance([par EXCEPT
                            !.fields = Append(@, Field(par.ftype, par.cur_token.value,
                                                       par.fquant))],
                         scan, "fields_separator")
            ELSE Step([par EXCEPT
                         !.fields = Append(@, Field(par.ftype, None, par.fquant)),
                         !.pc = "fields_separator"], scan))

\* parse_fields: break at ")", step over ",", and otherwise loop again.
ParseFieldsSeparator ==
    /\ par.pc = "fields_separator"
    /\ Take(IF par.cur_token = Empty THEN Throw(AttributeError, par, scan)
            ELSE IF at_kind(par, {"RPAREN"})
            THEN Step([par EXCEPT !.pc = "fields_rparen"], scan)
            ELSE IF at_kind(par, {"COMMA"}) THEN advance(par, scan, "fields_loop")
            ELSE Step([par EXCEPT !.pc = "fields_loop"], scan))

\* parse_fields: match ")" and return the fields to the calling rule.
FieldsReturn(p) ==
    CASE p.caller = "parse_product" ->
            [p EXCEPT !.pfields = p.fields, !.pc = "parse_optional_attributes"]
      [] p.caller = "parse_sum" ->
            [p EXCEPT !.sumlist = Append(@, Constructor(p.cname, p.fields)),
                      !.pc = "sum_pipe"]
      [] p.caller = "sum_attributes" ->
            [p EXCEPT !.defs = Append(@, Type(p.typename, Sum(p.sumlist, p.fields))),
                      !.pc = "parse_definitions"]
      [] p.caller = "product_attributes" ->
            [p EXCEPT !.defs = Append(@, Type(p.typename, Product(p.pfields, p.fields))),
                      !.pc = "parse_definitions"]

ParseFieldsRParen ==
    /\ par.pc = "fields_rparen"
    /\ Take(match(FieldsReturn(par), scan, {"RPAREN"}, FieldsReturn(par).pc))

\* parse_module: match "}" and return the Module.
ParseModuleRBrace ==
    /\ pc = "parse"
    /\ par.pc = "module_rbrace"
    /\ LET r == match(par, scan, {"RBRACE"}, "done") IN
       /\ scan' = r.scan
       /\ IF r.exc # None
          THEN /\ par' = [r.par EXCEPT !.pc = "raised"]
               /\ outcome' = Raised(r.exc)
               /\ tree' = tree
               /\ pc' = "done"
          ELSE /\ par' = r.par
               /\ tree' = Module(par.name, par.defs)
               /\ outcome' = IF call = "parse" THEN Returned(Module(par.name, par.defs))
                             ELSE outcome
               /\ pc' = IF call = "parse" THEN "done" ELSE "check_tree"
    /\ UNCHANGED <<call, source, visitor, behaviour, stack, result, exception,
                   chk, gen, log>>

ParserNext ==
    \/ Parse
    \/ ParseModule
    \/ ParseModuleName
    \/ ParseModuleLBrace
    \/ ParseDefinitions
    \/ ParseDefinitionEquals
    \/ ParseType
    \/ ParseSum
    \/ ParseOptionalFields
    \/ ParseSumPipe
    \/ ParseOptionalAttributes
    \/ ParseFields
    \/ ParseFieldsLoop
    \/ ParseOptionalFieldQuantifier
    \/ ParseFieldId
    \/ ParseFieldsSeparator
    \/ ParseFieldsRParen
    \/ ParseModuleRBrace

-----------------------------------------------------------------------------
(* Meta-AST helpers *)

\* The _fields of each node class, and what each holds: a string, a node, or
\* a list of nodes.
NodeFields(cls) ==
    CASE cls = "Module" -> <<"name", "dfns">>
      [] cls = "Type" -> <<"name", "value">>
      [] cls = "Sum" -> <<"types", "attributes">>
      [] cls = "Product" -> <<"fields", "attributes">>
      [] cls = "Constructor" -> <<"name", "fields">>
      [] cls = "Field" -> <<"type", "name", "quantifier">>

IsNodeField(cls, f) == cls = "Type" /\ f = "value"

IsListField(cls, f) ==
    \/ cls = "Module" /\ f = "dfns"
    \/ cls = "Sum" /\ f \in {"types", "attributes"}
    \/ cls = "Product" /\ f \in {"fields", "attributes"}
    \/ cls = "Constructor" /\ f = "fields"

\* iter_child_nodes: the node-valued fields and the elements of the list-valued
\* fields, in the order of _fields.
iter_child_nodes(node) ==
    LET fs == NodeFields(node.cls)
        sub(f) == IF IsNodeField(node.cls, f) THEN <<node[f]>>
                  ELSE IF IsListField(node.cls, f) THEN node[f]
                  ELSE <<>>
    IN IF Len(fs) = 2 THEN sub(fs[1]) \o sub(fs[2])
       ELSE sub(fs[1]) \o sub(fs[2]) \o sub(fs[3])

\* A node of the tree is named by its path: the indices, among the children
\* that iter_child_nodes gives, from the root down.
RECURSIVE NodeAt(_, _)
NodeAt(root, path) ==
    IF path = <<>> THEN root
    ELSE NodeAt(iter_child_nodes(root)[Head(path)], Tail(path))

RECURSIVE Preorder(_, _)
Preorder(root, path) ==
    LET n == Len(iter_child_nodes(NodeAt(root, path)))
        RECURSIVE from(_)
        from(i) == IF i > n THEN <<>>
                   ELSE Preorder(root, Append(path, i)) \o from(i + 1)
    IN <<path>> \o from(1)

-----------------------------------------------------------------------------
(* NodeVisitor *)

Boom == [type |-> "Boom", msg |-> None, lineno |-> Unknown]
Caught == <<"caught">>

\* The visit_<class> methods each visitor class defines; any other class of
\* node gets generic_visit.
HasMethod(v, cls) ==
    CASE v = "Checker" -> cls \in {"Type", "Constructor", "Field"}
      [] v = "PythonCodeGenerator" -> cls \in {"Type", "Sum", "Product", "Constructor"}
      [] OTHER -> FALSE

\* Whether the visit method hands back a generator (generic_visit(node)) or a
\* plain value: Checker.visit_Field and PythonCodeGenerator.visit_Constructor
\* return None.
ReturnsGenerator(v, cls) ==
    ~ \/ v = "Checker" /\ cls = "Field"
      \/ v = "PythonCodeGenerator" /\ cls = "Constructor"

BehaviourAt(path) ==
    IF visitor = "UserVisitor" THEN behaviour[path] ELSE "generic"

Frame(path) == [path |-> path, started |-> FALSE, next |-> 1]

\* A generic fallback that hands over the children of a node last to first.
ResumeChildrenBackwards(frame, exc) ==
    LET node == NodeAt(tree, frame.path)
        kids == iter_child_nodes(node)
    IN IF exc # None THEN [kind |-> "raise", child |-> None, value |-> exc]
       ELSE IF frame.next <= Len(kids)
       THEN [kind |-> "yield", child |-> Append(frame.path, Len(kids) - frame.next + 1),
             value |-> None]
       ELSE [kind |-> "return", child |-> None, value |-> None]

\* A generator that ends quietly when an exception is thrown into it.
ResumeSwallows(frame, exc) ==
    LET kids == iter_child_nodes(NodeAt(tree, frame.path))
    IN IF exc # None THEN [kind |-> "return", child |-> None, value |-> None]
       ELSE IF ~frame.started /\ BehaviourAt(frame.path) = "raise"
       THEN [kind |-> "raise", child |-> None, value |-> Boom]
       ELSE IF frame.next <= Len(kids)
       THEN [kind |-> "yield", child |-> Append(frame.path, frame.next), value |-> None]
       ELSE [kind |-> "return", child |-> None, value |-> None]

\* stack[-1].send(result) or stack[-1].throw(exception): what the generator
\* _visit(node) on top of the stack does when it is resumed.
\*   "yield"  it suspends again, handing over its next child
\*   "return" it finishes (StopIteration carrying its return value)
\*   "raise"  an exception leaves it
Resume(frame, exc) ==
    LET node == NodeAt(tree, frame.path)
        kids == iter_child_nodes(node)
        how == BehaviourAt(frame.path)
        goOn == IF frame.next <= Len(kids)
                THEN [kind |-> "yield", child |-> Append(frame.path, frame.next),
                      value |-> None]
                ELSE [kind |-> "return", child |-> None, value |-> None]
    IN IF exc # None
       THEN CASE how = "catch" -> [kind |-> "return", child |-> None, value |-> Caught]
              [] how = "recover" -> goOn
              [] OTHER -> [kind |-> "raise", child |-> None, value |-> exc]
       ELSE IF ~frame.started /\ how = "raise"
       THEN [kind |-> "raise", child |-> None, value |-> Boom]
       ELSE IF ~frame.started /\ ~ReturnsGenerator(visitor, node.cls)
       THEN [kind |-> "return", child |-> None, value |-> None]
       ELSE goOn

Top == stack[Len(stack)]
SetTop(st, f) == [st EXCEPT ![Len(st)] = f]

\* A pop that takes the oldest procedure off the stack.
PopOldest(st) == Tail(st)

Pop(st) == SubSeq(st, 1, Len(st) - 1)

-----------------------------------------------------------------------------
(* Checker *)

\* A dict, in insertion order: a sequence of [key, value] entries.
DictHas(d, k) == \E i \in 1..Len(d) : d[i].key = k
DictIndex(d, k) == CHOOSE i \in 1..Len(d) : d[i].key = k
DictGet(d, k) == d[DictIndex(d, k)].value
DictSet(d, k, v) ==
    IF DictHas(d, k) THEN [d EXCEPT ![DictIndex(d, k)].value = v]
    ELSE Append(d, [key |-> k, value |-> v])
DictKeys(d) == [i \in 1..Len(d) |-> d[i].key]

ASDL_TYPE_TO_PYTHON_TYPE ==
    << [key |-> <<"i","d","e","n","t","i","f","i","e","r">>, value |-> <<"s","t","r">>],
       [key |-> <<"s","t","r","i","n","g">>, value |-> <<"s","t","r">>],
       [key |-> <<"i","n","t">>, value |-> <<"i","n","t">>],
       [key |-> <<"c","o","n","s","t","a","n","t">>,
        value |-> <<"o","b","j","e","c","t">>] >>

ASDL_TYPES == {ASDL_TYPE_TO_PYTHON_TYPE[i].key : i \in 1..Len(ASDL_TYPE_TO_PYTHON_TYPE)}

NewChecker ==
    [constructors |-> <<>>, types |-> <<>>, error_messages |-> <<>>,
     parent_type_name |-> <<>>]

Message(text, name, owners) == [text |-> text, name |-> name, owners |-> owners]

CheckerVisitType(c, node) == [c EXCEPT !.parent_type_name = node.name]

\* A visit_Constructor that keeps the first owner of a name and reports nothing.
CheckerVisitConstructorSilent(c, node) ==
    LET parent_name == c.parent_type_name IN
    IF DictHas(c.constructors, node.name)
    THEN [c EXCEPT !.parent_type_name = node.name]
    ELSE [c EXCEPT
            !.parent_type_name = node.name,
            !.constructors = DictSet(@, node.name, parent_name)]

CheckerVisitConstructor(c, node) ==
    LET parent_name == c.parent_type_name IN
    IF DictHas(c.constructors, node.name)
    THEN [c EXCEPT
            !.parent_type_name = node.name,
            !.error_messages =
                @ \o << Message("Redefinition of constructor", node.name, <<>>),
                        Message("Defined in", None,
                                <<DictGet(c.constructors, node.name), parent_name>>) >>]
    ELSE [c EXCEPT
            !.parent_type_name = node.name,
            !.constructors = DictSet(@, node.name, parent_name)]

CheckerVisitField(c, field) ==
    [c EXCEPT !.types =
        DictSet(@, field.type,
                Append(IF DictHas(c.types, field.type) THEN DictGet(c.types, field.type)
                       ELSE <<>>,
                       c.parent_type_name))]

\* The visit method of the Checker that runs when the walk starts a node.
CheckerVisit(c, node) ==
    CASE node.cls = "Type" -> CheckerVisitType(c, node)
      [] node.cls = "Constructor" -> CheckerVisitConstructor(c, node)
      [] node.cls = "Field" -> CheckerVisitField(c, node)
      [] OTHER -> c

\* A check that stops at the first undefined type it meets.
UndefinedMessagesFirstOnly(c, mod) ==
    LET module_types == {mod.dfns[i].name : i \in 1..Len(mod.dfns)}
        expected_types == ASDL_TYPES \cup module_types
        undefined == SelectSeq(c.types, LAMBDA e : e.key \notin expected_types)
    IN [i \in 1..(IF undefined = <<>> THEN 0 ELSE 1) |->
            Message("Undefined type", undefined[i].key, undefined[i].value)]

\* check_tree, after the walk: the undefined-type messages, in the order of
\* checker.types, appended to the checker's messages.
UndefinedMessages(c, mod) ==
    LET module_types == {mod.dfns[i].name : i \in 1..Len(mod.dfns)}
        expected_types == ASDL_TYPES \cup module_types
        undefined == SelectSeq(c.types, LAMBDA e : e.key \notin expected_types)
    IN [i \in 1..Len(undefined) |->
            Message("Undefined type", undefined[i].key, undefined[i].value)]

AllMessages(c, mod) == c.error_messages \o UndefinedMessages(c, mod)

-----------------------------------------------------------------------------
(* Code generator *)

NoneText == <<"N","o","n","e">>
ASTName == <<"A","S","T">>

\* f"{value}" and repr(value) of a name that may be None.
Str(v) == IF v = None THEN NoneText ELSE v
Repr(v) == IF v = None THEN NoneText ELSE <<"'">> \o v \o <<"'">>

\* One parameter of a generated __init__: "self", the keyword-only marker "*",
\* or "name: annotation"; default is the "= ..." part of the text, None when
\* the text has none.
SelfParam == [kind |-> "self", name |-> None, wrap |-> "none", type |-> None, default |-> None]
StarParam == [kind |-> "*", name |-> None, wrap |-> "none", type |-> None, default |-> None]

build_init_param_from_field(field) ==
    [kind |-> "param",
     name |-> Str(field.name),
     wrap |-> CASE field.quantifier = "SEQ" -> "list"
                [] field.quantifier = "OPT" -> "Optional"
                [] OTHER -> "none",
     type |-> IF DictHas(ASDL_TYPE_TO_PYTHON_TYPE, field.type)
              THEN DictGet(ASDL_TYPE_TO_PYTHON_TYPE, field.type)
              ELSE field.type,
     default |-> None]

\* "self.{name} = {name}"
Assign(field) == [target |-> Str(field.name), value |-> Str(field.name)]

\* [build(f) for f in fields] and the statements written for the same fields.
InitParams(fields) == [i \in 1..Len(fields) |-> build_init_param_from_field(fields[i])]
Assigns(fields) == [i \in 1..Len(fields) |-> Assign(fields[i])]

\* A class whose __init__ is written whether or not it does something.
ClassDeclAlwaysInit(name, base, match_args, init_params, init_body) ==
    [kind |-> "class", name |-> name, base |-> base, match_args |-> match_args,
     init |-> [params |-> init_params, body |-> init_body]]

\* One class of the generated text; init is None when no __init__ is written.
ClassDecl(name, base, match_args, init_params, init_body) ==
    [kind |-> "class", name |-> name, base |-> base, match_args |-> match_args,
     init |-> IF Len(init_params) > 1 \/ init_body # <<>>
              THEN [params |-> init_params, body |-> init_body]
              ELSE None]

Imports == [kind |-> "imports", name |-> None, base |-> None, match_args |-> <<>>,
            init |-> None]
RootClass == [kind |-> "class", name |-> ASTName, base |-> None, match_args |-> <<>>,
              init |-> None]

\* PythonCodeGenerator.visit: the preamble is written before the walk.
NewGenerator ==
    [buffer |-> <<>>, parent_type_name |-> <<>>, parent_type_attributes |-> None]

GeneratorPreamble(g) == [g EXCEPT !.buffer = @ \o <<Imports, RootClass>>]

AttributeStatements(attributes) ==
    IF attributes # <<>>
    THEN [init_params |-> <<StarParam>> \o InitParams(attributes),
          init_body_stmts |-> Assigns(attributes)]
    ELSE None

GeneratorVisitType(g, node) == [g EXCEPT !.parent_type_name = node.name]

\* A visit_Sum that leaves _parent_type_attributes alone when the Sum has no
\* attributes of its own.
GeneratorVisitSumKeepsAttributes(g, node) ==
    LET saved_attributes == AttributeStatements(node.attributes)
        init_params == <<SelfParam>> \o
            (IF saved_attributes = None THEN <<>> ELSE saved_attributes.init_params)
        init_body ==
            IF saved_attributes = None THEN <<>> ELSE saved_attributes.init_body_stmts
    IN [g EXCEPT
          !.buffer = Append(@, ClassDecl(g.parent_type_name, ASTName, <<>>,
                                         init_params, init_body)),
          !.parent_type_attributes =
              IF saved_attributes = None THEN @ ELSE saved_attributes]

GeneratorVisitSum(g, node) ==
    LET saved_attributes == AttributeStatements(node.attributes)
        init_params == <<SelfParam>> \o
            (IF saved_attributes = None THEN <<>> ELSE saved_attributes.init_params)
        init_body ==
            IF saved_attributes = None THEN <<>> ELSE saved_attributes.init_body_stmts
    IN [g EXCEPT
          !.buffer = Append(@, ClassDecl(g.parent_type_name, ASTName, <<>>,
                                         init_params, init_body)),
          !.parent_type_attributes = saved_attributes]

GeneratorVisitProduct(g, node) ==
    LET saved_attributes == AttributeStatements(node.attributes)
        init_params == <<SelfParam>> \o InitParams(node.fields) \o
            (IF saved_attributes = None THEN <<>> ELSE saved_attributes.init_params)
        init_body == Assigns(node.fields) \o
            (IF saved_attributes = None THEN <<>> ELSE saved_attributes.init_body_stmts)
        names == [i \in 1..Len(node.fields) |-> Repr(node.fields[i].name)]
    IN [g EXCEPT
          !.buffer = Append(@, ClassDecl(g.parent_type_name, ASTName, names,
                                         init_params, init_body)),
          !.parent_type_attributes = saved_attributes]

\* A visit_Constructor that forgets the attributes of the enclosing Sum.
GeneratorVisitConstructorOwnFieldsOnly(g, node) ==
    LET init_params == <<SelfParam>> \o InitParams(node.fields)
        init_body == Assigns(node.fields)
        names == [i \in 1..Len(node.fields) |-> Repr(node.fields[i].name)]
    IN [g EXCEPT
          !.buffer = Append(@, ClassDecl(node.name, g.parent_type_name, names,
                                         init_params, init_body))]

\* A visit_Constructor that also takes the constructor's name for the name of
\* the enclosing type, as Checker.visit_Constructor does.
GeneratorVisitConstructorRenames(g, node) ==
    LET inherited == g.parent_type_attributes
        init_params == <<SelfParam>> \o InitParams(node.fields) \o
            (IF inherited = None THEN <<>> ELSE inherited.init_params)
        init_body == Assigns(node.fields) \o
            (IF inherited = None THEN <<>> ELSE inherited.init_body_stmts)
        names == [i \in 1..Len(node.fields) |-> Repr(node.fields[i].name)]
    IN [g EXCEPT
          !.buffer = Append(@, ClassDecl(node.name, g.parent_type_name, names,
                                         init_params, init_body)),
          !.parent_type_name = node.name]

GeneratorVisitConstructor(g, node) ==
    LET inherited == g.parent_type_attributes
        init_params == <<SelfParam>> \o InitParams(node.fields) \o
            (IF inherited = None THEN <<>> ELSE inherited.init_params)
        init_body == Assigns(node.fields) \o
            (IF inherited = None THEN <<>> ELSE inherited.init_body_stmts)
        names == [i \in 1..Len(node.fields) |-> Repr(node.fields[i].name)]
    IN [g EXCEPT
          !.buffer = Append(@, ClassDecl(node.name, g.parent_type_name, names,
                                         init_params, init_body))]

\* The visit method of the generator that runs when the walk starts a node.
GeneratorVisit(g, node) ==
    CASE node.cls = "Type" -> GeneratorVisitType(g, node)
      [] node.cls = "Sum" -> GeneratorVisitSum(g, node)
      [] node.cls = "Product" -> GeneratorVisitProduct(g, node)
      [] node.cls = "Constructor" -> GeneratorVisitConstructor(g, node)
      [] OTHER -> g

-----------------------------------------------------------------------------
(* NodeVisitor.visit, check_tree and the generator's run *)

Walking == pc \in {"checker.visit", "code_generator.visit", "visit"} /\ stack # <<>>

\* What one iteration of the loop of NodeVisitor.visit does besides the stack:
\* when _visit(node) is resumed for the first time, the visit method runs.
Iteration(r) ==
    LET f == Top
        node == NodeAt(tree, f.path)
        starting == ~f.started /\ exception = None
    IN /\ chk' = IF starting /\ visitor = "Checker" THEN CheckerVisit(chk, node) ELSE chk
       /\ gen' = IF starting /\ visitor = "PythonCodeGenerator"
                 THEN GeneratorVisit(gen, node) ELSE gen
       /\ log' = Append(log, [path |-> f.path, starting |-> starting,
                              sent |-> IF exception # None THEN exception ELSE result,
                              thrown |-> exception # None,
                              gave |-> r.kind,
                              value |-> r.value])
       /\ UNCHANGED <<call, pc, source, scan, par, tree, visitor, behaviour, outcome>>

\* The else branch: the generator yielded a child node.
VisitYield ==
    /\ Walking
    /\ LET r == Resume(Top, exception) IN
       /\ r.kind = "yield"
       /\ stack' = Append(SetTop(stack, [Top EXCEPT !.started = TRUE,
                                                    !.next = @ + 1]),
                          Frame(r.child))
       /\ result' = None
       /\ exception' = None
       /\ Iteration(r)

\* except StopIteration: the generator finished.
VisitStop ==
    /\ Walking
    /\ LET r == Resume(Top, exception) IN
       /\ r.kind = "return"
       /\ stack' = Pop(stack)
       /\ result' = r.value
       /\ exception' = exception
       /\ Iteration(r)

\* except BaseException: an exception left the generator.
VisitRaise ==
    /\ Walking
    /\ LET r == Resume(Top, exception) IN
       /\ r.kind = "raise"
       /\ stack' = Pop(stack)
       /\ result' = result
       /\ exception' = r.value
       /\ Iteration(r)

\* A check_tree whose Checker empties the attributes of the first definition
\* when the walk starts.
CheckTreeBeginStripsAttributes ==
    /\ pc = "check_tree"
    /\ pc' = "checker.visit"
    /\ visitor' = "Checker"
    /\ chk' = NewChecker
    /\ stack' = <<Frame(<<>>)>>
    /\ result' = None
    /\ exception' = None
    /\ tree' = IF tree.dfns = <<>> THEN tree
               ELSE [tree EXCEPT !.dfns[1].value.attributes = <<>>]
    /\ UNCHANGED <<call, source, scan, par, behaviour, gen, log, outcome>>

\* check_tree: a Checker is made and its visit starts.
CheckTreeBegin ==
    /\ pc = "check_tree"
    /\ pc' = "checker.visit"
    /\ visitor' = "Checker"
    /\ chk' = NewChecker
    /\ stack' = <<Frame(<<>>)>>
    /\ result' = None
    /\ exception' = None
    /\ UNCHANGED <<call, source, scan, par, tree, behaviour, gen, log, outcome>>

\* A check_tree that reports nothing to its caller.
CheckTreeEndSwallows ==
    /\ pc = "checker.visit"
    /\ stack = <<>>
    /\ chk' = [chk EXCEPT !.error_messages = AllMessages(chk, tree)]
    /\ IF call = "check_tree"
       THEN outcome' = Returned(None) /\ pc' = "done"
       ELSE outcome' = outcome /\ pc' = "code_generator"
    /\ UNCHANGED <<call, source, scan, par, tree, visitor, behaviour, stack, result,
                   exception, gen, log>>

\* check_tree, after checker.visit(mod): the undefined types are reported and
\* the error, if any message was gathered, is raised.
CheckTreeEnd ==
    /\ pc = "checker.visit"
    /\ stack = <<>>
    /\ LET messages == AllMessages(chk, tree) IN
       /\ chk' = [chk EXCEPT !.error_messages =
                     IF exception = None THEN messages ELSE @]
       /\ IF exception # None
          THEN outcome' = Raised(exception) /\ pc' = "done"
          ELSE IF messages # <<>>
          THEN outcome' = Raised(ASDLSyntaxError(messages, Unknown)) /\ pc' = "done"
          ELSE IF call = "check_tree"
          THEN outcome' = Returned(None) /\ pc' = "done"
          ELSE outcome' = outcome /\ pc' = "code_generator"
    /\ UNCHANGED <<call, source, scan, par, tree, visitor, behaviour, stack, result,
                   exception, gen, log>>

\* generate_code: a PythonCodeGenerator is made; its visit writes the preamble
\* and starts the walk.
GenerateBegin ==
    /\ pc = "code_generator"
    /\ pc' = "code_generator.visit"
    /\ visitor' = "PythonCodeGenerator"
    /\ gen' = GeneratorPreamble(NewGenerator)
    /\ stack' = <<Frame(<<>>)>>
    /\ result' = None
    /\ exception' = None
    /\ UNCHANGED <<call, source, scan, par, tree, behaviour, chk, log, outcome>>

\* generate_code, after code_generator.visit(tree): get_value().
GenerateEnd ==
    /\ pc = "code_generator.visit"
    /\ stack = <<>>
    /\ pc' = "done"
    /\ outcome' = IF exception # None THEN Raised(exception) ELSE Returned(gen.buffer)
    /\ UNCHANGED <<call, source, scan, par, tree, visitor, behaviour, stack, result,
                   exception, chk, gen, log>>

\* visitor.visit(root): the stack is made with the root's generator on it.
VisitBegin ==
    /\ pc = "visit.begin"
    /\ pc' = "visit"
    /\ stack' = <<Frame(<<>>)>>
    /\ result' = None
    /\ exception' = None
    /\ UNCHANGED <<call, source, scan, par, tree, visitor, behaviour, chk, gen, log,
                   outcome>>

\* visit, after the loop: raise the pending exception or return the result.
VisitEnd ==
    /\ pc = "visit"
    /\ stack = <<>>
    /\ pc' = "done"
    /\ outcome' = IF exception # None THEN Raised(exception) ELSE Returned(result)
    /\ UNCHANGED <<call, source, scan, par, tree, visitor, behaviour, stack, result,
                   exception, chk, gen, log>>


-----------------------------------------------------------------------------
(* Texts *)

RECURSIVE Join(_)
Join(words) ==
    IF words = <<>> THEN <<>>
    ELSE IF Len(words) = 1 THEN words[1]
    ELSE words[1] \o <<" ">> \o Join(Tail(words))

RECURSIVE Flatten(_)
Flatten(seqs) == IF seqs = <<>> THEN <<>> ELSE seqs[1] \o Flatten(Tail(seqs))

SeqsUpTo(S, n) == UNION {[1..k -> S] : k \in 0..n}

Prefixes(s) == {SubSeq(s, 1, k) : k \in 0..Len(s)}

a == <<"a">>
b == <<"b">>
x == <<"x">>
y == <<"y">>
z == <<"z">>
X == <<"X">>
Y == <<"Y">>
int == <<"i","n","t">>
bar == <<"b","a","r">>
baz == <<"b","a","z">>
LP == <<"(">>
RP == <<")">>
EQ == <<"=">>
CM == <<",">>
QU == <<"?">>
ST == <<"*">>
PI == <<"|">>
LB == <<"{">>
RB == <<"}">>

string == <<"s","t","r","i","n","g">>
q == <<"q">>
r == <<"r">>
m == <<"m">>

\* The most type definitions in a module given to a call.
MaxDefs == 2

\* The most nodes of a tree whose visit procedure a user-written visitor
\* overrides.
MaxOverrides == 2

Header == <<KwModule, m, LB>>

\* The definitions the texts given to parse are made of, as words.
ParseDefForms ==
    { <<a, EQ, X>>,
      <<a, EQ, X, PI, Y, LP, a, x, CM, a, QU, y, RP, KwAttributes, LP, a, ST, z, RP>>,
      <<a, EQ, LP, a, x, RP, KwAttributes, LP, a, RP>>,
      <<a, EQ, LP, RP>>,
      <<a, EQ, LP, a, x, a, y, RP>>,
      <<a, EQ, X, LP, a, Y, CM, RP>>,
      <<a, EQ, LP, a, QU, ST, x, RP>>,
      <<a, EQ, X, PI, LP, a, RP>>,
      <<KwAttributes, EQ, LP, KwAttributes, KwAttributes, RP>>,
      <<a, EQ, LP, a, X, RP>>,
      <<a, EQ, x>>,
      <<a, EQ, Y, PI, X>> }

ParseClosings == { <<RB>>, <<RB, x>>, <<RB, <<"1">>>>, <<RB, RB>> }


ParseTexts ==
    { Join(Header \o Flatten(ds) \o c) :
        ds \in SeqsUpTo(ParseDefForms, MaxDefs), c \in ParseClosings }

TruncatedTexts ==
    UNION { {Join(w) : w \in Prefixes(Header \o d \o <<RB>>)} : d \in ParseDefForms }

SpecialTexts ==
    { <<" ", "\t", " ">>,
      <<"-", "-", " ", "m">>,
      <<"\n", "\n">>,
      KwModule \o <<"\n">> \o <<"m", " ", "{", "\n", "-", "-", "}", "\n", "}", "\n">>,
      KwModule \o <<" ", "M", "_", "m", "{", "}">>,
      <<"m", "o", "d", " ", "m">>,
      KwModule \o <<" ", "m", " ", "{", "-", "}">>,
      KwModule \o <<" ", "m", " ", "}", "-">>,
      <<"_", "m">> }

ParseSources == ParseTexts \cup TruncatedTexts \cup SpecialTexts

-----------------------------------------------------------------------------
(* parse(source) *)

Quiet ==
    /\ visitor = "none"
    /\ behaviour = None
    /\ stack = <<>>
    /\ result = None
    /\ exception = None
    /\ chk = None
    /\ gen = None
    /\ log = <<>>
    /\ outcome = Running

InitParse ==
    /\ call = "parse"
    /\ pc = "parse"
    /\ source \in ParseSources
    /\ scan = NewScan
    /\ par = NewParser
    /\ tree = None
    /\ Quiet

SpecParse == InitParse /\ [][ParserNext]_vars

-----------------------------------------------------------------------------
(* check_tree(mod) *)

ModulesOf(values) ==
    LET defs == {Type(n, v) : n \in {a, b}, v \in values}
    IN {Module(m, ds) : ds \in SeqsUpTo(defs, MaxDefs)}

\* The type definitions the modules given to check_tree are made of: sums
\* that share constructor names, fields of defined and undefined types.
CheckValues ==
    LET F(t) == Field(t, x, QNone) IN
    { Sum(<<Constructor(X, <<>>)>>, <<>>),
      Sum(<<Constructor(Y, <<>>), Constructor(X, <<>>)>>, <<>>),
      Sum(<<Constructor(X, <<F(bar)>>)>>, <<>>),
      Sum(<<Constructor(X, <<>>), Constructor(Y, <<>>)>>, <<F(bar)>>),
      Sum(<<Constructor(X, <<F(int), F(baz)>>), Constructor(X, <<>>)>>, <<>>),
      Sum(<<Constructor(Y, <<F(b)>>)>>, <<F(int)>>),
      Product(<<F(int), F(a)>>, <<>>),
      Product(<<F(bar)>>, <<F(baz), F(bar)>>) }

CheckModules == ModulesOf(CheckValues)

NoSource ==
    /\ source = <<>>
    /\ scan = NewScan
    /\ par = [NewParser EXCEPT !.pc = "idle"]

InitCheck ==
    /\ call = "check_tree"
    /\ pc = "check_tree"
    /\ tree \in CheckModules
    /\ NoSource
    /\ Quiet

\* No visit method of the Checker raises: the except BaseException branch of
\* the loop is never taken in this walk.
CheckNext == CheckTreeBegin \/ VisitYield \/ VisitStop \/ CheckTreeEnd

SpecCheck == InitCheck /\ [][CheckNext]_vars

-----------------------------------------------------------------------------
(* The code generator's run on a tree *)

GenValues ==
    { Sum(<<Constructor(X, <<Field(int, x, "SEQ"), Field(a, y, "OPT")>>),
            Constructor(Y, <<>>)>>,
          <<Field(int, q, QNone), Field(b, r, "OPT")>>),
      Sum(<<Constructor(X, <<>>), Constructor(Y, <<Field(a, z, QNone)>>)>>, <<>>),
      Product(<<Field(string, x, QNone), Field(a, y, "SEQ")>>,
              <<Field(int, None, "OPT")>>),
      Product(<<Field(a, x, QNone)>>, <<>>),
      Product(<<>>, <<>>),
      Sum(<<Constructor(Y, <<Field(b, None, "SEQ")>>)>>, <<Field(string, z, "SEQ")>>) }

GenModules == ModulesOf(GenValues)

InitGen ==
    /\ call = "code_generator"
    /\ pc = "code_generator"
    /\ tree \in GenModules
    /\ NoSource
    /\ Quiet

GenNext == GenerateBegin \/ VisitYield \/ VisitStop \/ GenerateEnd

SpecGen == InitGen /\ [][GenNext]_vars

-----------------------------------------------------------------------------
(* visitor.visit(root) *)

Nodes(t) == {Preorder(t, <<>>)[i] : i \in 1..Len(Preorder(t, <<>>))}

\* The trees a user-written visitor walks.
UserTrees ==
    { Module(m, <<Type(a, Sum(<<Constructor(X, <<Field(int, x, QNone)>>),
                                Constructor(Y, <<>>)>>,
                              <<Field(int, q, QNone)>>))>>),
      Module(m, <<Type(a, Product(<<Field(int, x, QNone)>>, <<>>)),
                  Type(b, Sum(<<Constructor(X, <<>>)>>, <<>>))>>) }

\* What the visit procedure of an overridden node does.
\*   "raise"    it raises Boom before it yields anything
\*   "catch"    it yields its children in turn inside one try block; when the
\*              exception of a child arrives it returns Caught
\*   "recover"  it yields each child inside a try block of its own and goes on
\*              with the next child when the exception of a child arrives
Overrides == {"raise", "catch", "recover"}

Behaviours(t) ==
    LET choices == SeqsUpTo(Nodes(t) \X Overrides, MaxOverrides)
        at(c, path) ==
            LET hits == {i \in 1..Len(c) : c[i][1] = path}
            IN IF hits = {} THEN "generic"
               ELSE c[CHOOSE i \in hits : \A j \in hits : j <= i][2]
    IN {[path \in Nodes(t) |-> at(c, path)] : c \in choices}

InitVisit ==
    /\ call = "visit"
    /\ pc = "visit.begin"
    /\ \/ /\ visitor = "NodeVisitor"
          /\ tree \in GenModules \cup CheckModules
          /\ behaviour = None
       \/ /\ visitor = "UserVisitor"
          /\ tree \in UserTrees
          /\ behaviour \in Behaviours(tree)
    /\ NoSource
    /\ stack = <<>>
    /\ result = None
    /\ exception = None
    /\ chk = None
    /\ gen = None
    /\ log = <<>>
    /\ outcome = Running

VisitNext == VisitBegin \/ VisitYield \/ VisitStop \/ VisitRaise \/ VisitEnd

SpecVisit == InitVisit /\ [][VisitNext]_vars

-----------------------------------------------------------------------------
(* generate_code(source) *)

\* The definitions the texts given to generate_code are made of, as words.
DefForms ==
    { <<a, EQ, X, PI, Y, LP, int, ST, x, CM, a, QU, y, RP,
        KwAttributes, LP, int, q, RP>>,
      <<b, EQ, X>>,
      <<a, EQ, LP, int, x, RP, KwAttributes, LP, a, QU, z, RP>>,
      <<b, EQ, LP, bar, x, RP>>,
      <<a, EQ, Y>>,
      <<b, EQ, Y, LP, a, x, RP>>,
      <<b, EQ, ASTName>>,
      <<a, EQ, LP, RP>> }

Sources ==
    { Join(Header \o Flatten(ds) \o <<RB>>) : ds \in SeqsUpTo(DefForms, MaxDefs) }
    \cup SpecialTexts
    \cup { Join(w) : w \in Prefixes(Header \o <<a, EQ, X, LP, a, QU, x>>) }

Init ==
    /\ call = "generate_code"
    /\ pc = "parse"
    /\ source \in Sources
    /\ scan = NewScan
    /\ par = NewParser
    /\ tree = None
    /\ Quiet

Next ==
    \/ ParserNext
    \/ CheckTreeBegin
    \/ VisitYield
    \/ VisitStop
    \/ CheckTreeEnd
    \/ GenerateBegin
    \/ GenerateEnd

Spec == Init /\ [][Next]_vars

-----------------------------------------------------------------------------
(* Properties of check_tree *)

Range(sq) == {sq[i] : i \in 1..Len(sq)}

Done == pc = "done"

RaisedSyntaxError == outcome.kind = "raised" /\ outcome.value.type = "ASDLSyntaxError"

\* The messages of the error that check_tree raised.
Diagnostics == IF RaisedSyntaxError THEN outcome.value.msg ELSE <<>>

IsSumDef(d) == d.value.cls = "Sum"
ConstructorNames(d) == {d.value.types[i].name : i \in 1..Len(d.value.types)}

\* C1: when two distinct Sum types of the Module each declare a Constructor of
\* the same name, check_tree fails and a "Defined in" line of its message names
\* the TypeDefs of both Sums.  (Stated for the first two types that declare
\* the name.)
C1_SharedConstructorNamesBothTypes ==
    (Done /\ call = "check_tree") =>
        \A i, j \in 1..Len(tree.dfns) :
            (/\ i < j
             /\ IsSumDef(tree.dfns[i]) /\ IsSumDef(tree.dfns[j])
             /\ \A k \in 1..(j - 1) : k # i => ~IsSumDef(tree.dfns[k]))
            => \A n \in ConstructorNames(tree.dfns[i]) \cap ConstructorNames(tree.dfns[j]) :
                  /\ RaisedSyntaxError
                  /\ \E k \in 1..Len(Diagnostics) :
                        /\ Diagnostics[k].text = "Defined in"
                        /\ {tree.dfns[i].name, tree.dfns[j].name}
                              \subseteq Range(Diagnostics[k].owners)

\* The Fields of the tree, by path, and the owner of each: the Constructor
\* it is a field of, or else the TypeDef whose Product or Sum holds it.
FieldPaths(t) == {path \in Nodes(t) : NodeAt(t, path).cls = "Field"}

Parent(path) == SubSeq(path, 1, Len(path) - 1)

OwnerOf(t, path) ==
    IF NodeAt(t, Parent(path)).cls = "Constructor"
    THEN NodeAt(t, Parent(path)).name
    ELSE NodeAt(t, Parent(Parent(path))).name

DefinedTypes(t) == ASDL_TYPES \cup {t.dfns[i].name : i \in 1..Len(t.dfns)}

UndefinedNames(t) ==
    {NodeAt(t, path).type : path \in FieldPaths(t)} \ DefinedTypes(t)

\* C2: when a Field's type is neither a primitive nor a TypeDef of the Module,
\* check_tree fails and the "Undefined type" line for that name lists the
\* owner of every Field that referenced it.
C2_UndefinedTypeListsEveryOwner ==
    (Done /\ call = "check_tree") =>
        \A n \in UndefinedNames(tree) :
            /\ RaisedSyntaxError
            /\ \E k \in 1..Len(Diagnostics) :
                  /\ Diagnostics[k].text = "Undefined type"
                  /\ Diagnostics[k].name = n
                  /\ \A path \in FieldPaths(tree) :
                        NodeAt(tree, path).type = n =>
                            OwnerOf(tree, path) \in Range(Diagnostics[k].owners)

\* The paths of the nodes whose visit the walk started, in order.
Started == LET starts == SelectSeq(log, LAMBDA e : e.starting)
           IN [i \in 1..Len(starts) |-> starts[i].path]

\* The names of the Constructors that repeat a name met earlier in the tree,
\* in tree order: one redefinition each.
ConstructorsInOrder(t) ==
    LET all == Preorder(t, <<>>)
        cs == SelectSeq(all, LAMBDA path : NodeAt(t, path).cls = "Constructor")
    IN [i \in 1..Len(cs) |-> NodeAt(t, cs[i]).name]

Redefinitions(t) ==
    LET names == ConstructorsInOrder(t)
        again == {i \in 1..Len(names) : \E j \in 1..(i - 1) : names[j] = names[i]}
        RECURSIVE pick(_)
        pick(i) == IF i > Len(names) THEN <<>>
                   ELSE (IF i \in again THEN <<names[i]>> ELSE <<>>) \o pick(i + 1)
    IN pick(1)

WithText(msgs, text) == SelectSeq(msgs, LAMBDA e : e.text = text)

\* C10: check_tree is fail-slow.  For a Module with violations the whole tree
\* is walked and one ASDLSyntaxError without a line number is raised; its
\* message holds one redefinition diagnostic (two lines) for each repeated
\* Constructor, in tree order, and one undefined-type line for each distinct
\* undefined name.
C10_FailSlow ==
    (Done /\ call = "check_tree"
          /\ (Redefinitions(tree) # <<>> \/ UndefinedNames(tree) # {})) =>
        /\ RaisedSyntaxError
        /\ outcome.value.lineno = Unknown
        /\ Started = Preorder(tree, <<>>)
        /\ LET redef == WithText(Diagnostics, "Redefinition of constructor")
               undef == WithText(Diagnostics, "Undefined type")
           IN /\ [i \in 1..Len(redef) |-> redef[i].name] = Redefinitions(tree)
              /\ Len(WithText(Diagnostics, "Defined in")) = Len(redef)
              /\ {undef[i].name : i \in 1..Len(undef)} = UndefinedNames(tree)
              /\ Len(undef) = Cardinality(UndefinedNames(tree))

C10_Witness ==
    /\ Done
    /\ call = "check_tree"
    /\ Len(Redefinitions(tree)) >= 2
    /\ Cardinality(UndefinedNames(tree)) >= 2
    /\ RaisedSyntaxError

-----------------------------------------------------------------------------
(* Properties of the generated code *)

\* The nodes a class is written for, in the order the walk meets them, and
\* the class written for the node at a path: the classes follow the imports
\* and the root class in the buffer.
Declaring(t) ==
    SelectSeq(Preorder(t, <<>>),
              LAMBDA path : NodeAt(t, path).cls \in {"Sum", "Product", "Constructor"})

ClassOf(buffer, t, path) ==
    LET ds == Declaring(t)
    IN buffer[2 + CHOOSE i \in 1..Len(ds) : ds[i] = path]

GeneratedText == IF outcome.kind = "returned" THEN outcome.value ELSE <<>>

\* The parameters written for a list of Fields.
ParamsFor(params, first, fields) == SubSeq(params, first, first + Len(fields) - 1)

WrapOf(quantifier) ==
    CASE quantifier = "SEQ" -> "list"
      [] quantifier = "OPT" -> "Optional"
      [] OTHER -> "none"

\* C3: the parameter generated for a Field is collection-typed with a default
\* when the quantifier is *, optional-typed with a default when it is ?, and
\* the unwrapped type without a default when there is no quantifier.  (Stated
\* for the own fields of every Product and Constructor; None is "no default".)
C3_QuantifierDecidesTypeAndDefault ==
    (Done /\ call = "code_generator" /\ outcome.kind = "returned") =>
        \A path \in Nodes(tree) :
            LET node == NodeAt(tree, path) IN
            node.cls \in {"Product", "Constructor"} /\ node.fields # <<>> =>
                LET class == ClassOf(GeneratedText, tree, path)
                    params == ParamsFor(class.init.params, 2, node.fields)
                IN \A i \in 1..Len(node.fields) :
                      /\ params[i].kind = "param"
                      /\ params[i].wrap = WrapOf(node.fields[i].quantifier)
                      /\ (node.fields[i].quantifier = QNone) = (params[i].default = None)

\* The same without the defaults: the annotation alone follows the quantifier.
C3_QuantifierDecidesType ==
    (Done /\ call = "code_generator" /\ outcome.kind = "returned") =>
        \A path \in Nodes(tree) :
            LET node == NodeAt(tree, path) IN
            node.cls \in {"Product", "Constructor"} /\ node.fields # <<>> =>
                LET class == ClassOf(GeneratedText, tree, path)
                    params == ParamsFor(class.init.params, 2, node.fields)
                IN \A i \in 1..Len(node.fields) :
                      /\ params[i].kind = "param"
                      /\ params[i].wrap = WrapOf(node.fields[i].quantifier)

\* A generated text with a class whose fields carry *, ? and no quantifier.
C3_Witness ==
    /\ Done
    /\ call = "code_generator"
    /\ outcome.kind = "returned"
    /\ \E path \in Nodes(tree) :
          /\ NodeAt(tree, path).cls \in {"Product", "Constructor"}
          /\ \E i \in 1..Len(NodeAt(tree, path).fields) :
                NodeAt(tree, path).fields[i].quantifier = "SEQ"
    /\ \E path \in Nodes(tree) :
          /\ NodeAt(tree, path).cls \in {"Product", "Constructor"}
          /\ \E i \in 1..Len(NodeAt(tree, path).fields) :
                NodeAt(tree, path).fields[i].quantifier = "OPT"

NamesOf(fields) == [i \in 1..Len(fields) |-> Str(fields[i].name)]

\* C4: for every Sum that declares attributes and every Constructor of it,
\* the parameters of the Constructor's class are self, its own fields in
\* declared order, the keyword-only marker, and the Sum's attributes in
\* declared order; the body assigns each of them, in that order, to the
\* member of the same name.
C4_ConstructorsTakeSumAttributes ==
    (Done /\ call = "code_generator" /\ outcome.kind = "returned") =>
        \A path \in Nodes(tree) :
            LET sum == NodeAt(tree, path) IN
            sum.cls = "Sum" /\ sum.attributes # <<>> =>
                \A c \in 1..Len(sum.types) :
                    LET node == sum.types[c]
                        class == ClassOf(GeneratedText, tree, Append(path, c))
                        params == class.init.params
                        own == Len(node.fields)
                        all == node.fields \o sum.attributes
                    IN /\ class.name = node.name
                       /\ class.init # None
                       /\ Len(params) = 1 + own + 1 + Len(sum.attributes)
                       /\ params[1] = SelfParam
                       /\ ParamsFor(params, 2, node.fields)
                             = [i \in 1..own |-> build_init_param_from_field(node.fields[i])]
                       /\ params[2 + own] = StarParam
                       /\ ParamsFor(params, 3 + own, sum.attributes)
                             = [i \in 1..Len(sum.attributes) |->
                                   build_init_param_from_field(sum.attributes[i])]
                       /\ [i \in 1..Len(class.init.body) |-> class.init.body[i].target]
                             = NamesOf(all)
                       /\ [i \in 1..Len(class.init.body) |-> class.init.body[i].value]
                             = NamesOf(all)

\* A Sum with two attributes and two Constructors, one with two own fields and
\* one with none, followed by another type definition.
C4_Witness ==
    /\ Done
    /\ call = "code_generator"
    /\ outcome.kind = "returned"
    /\ Len(tree.dfns) >= 2
    /\ LET sum == tree.dfns[1].value IN
       /\ sum.cls = "Sum"
       /\ Len(sum.attributes) >= 2
       /\ Len(sum.types) >= 2
       /\ Len(sum.types[1].fields) >= 2
       /\ sum.types[2].fields = <<>>

-----------------------------------------------------------------------------
(* Properties of generate_code *)

\* tokenize and parse gave a tree and check_tree found nothing to report.
CheckPassed ==
    /\ tree # None
    /\ chk # None
    /\ exception = None
    /\ chk.error_messages = <<>>

Classes(buffer) == SelectSeq(buffer, LAMBDA d : d.kind = "class")

Distinct(sq) == \A i, j \in 1..Len(sq) : sq[i] = sq[j] => i = j

\* C5: when tokenize, parse and check_tree succeed on a text, generate_code
\* returns; its output declares the root class, one class for each TypeDef
\* and one for each Constructor, and no two classes of it have the same name.
C5_OneDeclarationPerTypeNoDuplicates ==
    (Done /\ call = "generate_code" /\ CheckPassed) =>
        /\ outcome.kind = "returned"
        /\ LET classes == Classes(outcome.value) IN
           /\ classes[1] = RootClass
           /\ Len(classes) = 1 + Len(Declaring(tree))
           /\ Distinct([i \in 1..Len(classes) |-> classes[i].name])

\* The same without the distinct names: one class for the root and one for
\* each Sum, Product and Constructor, named after it, in tree order.
C5_OneDeclarationPerType ==
    (Done /\ call = "generate_code" /\ CheckPassed) =>
        /\ outcome.kind = "returned"
        /\ LET classes == Classes(outcome.value)
               ds == Declaring(tree)
           IN /\ classes[1] = RootClass
              /\ Len(classes) = 1 + Len(ds)
              /\ \A i \in 1..Len(ds) :
                    classes[1 + i].name =
                        IF NodeAt(tree, ds[i]).cls = "Constructor"
                        THEN NodeAt(tree, ds[i]).name
                        ELSE NodeAt(tree, Parent(ds[i])).name

\* A text with two type definitions and a Constructor went through the whole
\* of generate_code.
C5_Witness ==
    /\ Done
    /\ call = "generate_code"
    /\ CheckPassed
    /\ outcome.kind = "returned"
    /\ Len(tree.dfns) = 2
    /\ \E path \in Nodes(tree) : NodeAt(tree, path).cls = "Constructor"

-----------------------------------------------------------------------------
(* Properties of parse *)

\* C6: whatever the text (empty, without a token, ending before the closing
\* brace of the module), parse returns a Module or raises ASDLSyntaxError.
C6_ParseReturnsOrSyntaxError ==
    (Done /\ call = "parse") =>
        \/ outcome.kind = "returned" /\ outcome.value.cls = "Module"
        \/ RaisedSyntaxError

\* parse came to its end on a text that holds no token.
C6_Witness ==
    /\ Done
    /\ call = "parse"
    /\ source # <<>>
    /\ AllTokens(source) = <<>>
    /\ TokenizesWhole(source)

\* The grammar of the parser's description, as a recognizer over a token
\* sequence: each operator maps a set of positions where a phrase may start
\* to the set of positions where it may end.
\*   module      := "module" id "{" definitions "}"
\*   definitions := { TypeId "=" type }
\*   type        := product | sum
\*   product     := fields [ "attributes" fields ]
\*   sum         := constructor { "|" constructor } [ "attributes" fields ]
\*   constructor := ConstructorId [ fields ]
\*   fields      := "(" { field "," } field ")"
\*   field       := TypeId [ "?" | "*" ] [ id ]
\*   id          := TypeId | ConstructorId
EbnfTok(toks, from, kinds) ==
    {pos + 1 : pos \in {s \in from : s <= Len(toks) /\ toks[s].kind \in kinds}}

EbnfWord(toks, from, word) ==
    {pos + 1 : pos \in {s \in from : /\ s <= Len(toks)
                                     /\ toks[s].kind = "TYPE_ID"
                                     /\ toks[s].value = word}}

EbnfField(toks, from) ==
    LET typed == EbnfTok(toks, from, {"TYPE_ID"})
        quantified == typed \cup EbnfTok(toks, typed, {"QUESTION", "ASTERISK"})
    IN quantified \cup EbnfTok(toks, quantified, {"TYPE_ID", "CONSTRUCTOR_ID"})

\* { field "," }
RECURSIVE EbnfFieldCommas(_, _, _)
EbnfFieldCommas(toks, from, seen) ==
    LET more == EbnfTok(toks, EbnfField(toks, from), {"COMMA"}) \ seen
    IN IF more = {} THEN seen ELSE EbnfFieldCommas(toks, more, seen \cup more)

EbnfFields(toks, from) ==
    LET open == EbnfTok(toks, from, {"LPAREN"})
        last == EbnfFieldCommas(toks, open, open)
    IN EbnfTok(toks, EbnfField(toks, last), {"RPAREN"})

\* [ "attributes" fields ]
EbnfAttributes(toks, from) ==
    from \cup EbnfFields(toks, EbnfWord(toks, from, KwAttributes))

EbnfProduct(toks, from) == EbnfAttributes(toks, EbnfFields(toks, from))

EbnfConstructor(toks, from) ==
    LET named == EbnfTok(toks, from, {"CONSTRUCTOR_ID"})
    IN named \cup EbnfFields(toks, named)

\* { "|" constructor }
RECURSIVE EbnfPipes(_, _, _)
EbnfPipes(toks, from, seen) ==
    LET more == EbnfConstructor(toks, EbnfTok(toks, from, {"PIPE"})) \ seen
    IN IF more = {} THEN seen ELSE EbnfPipes(toks, more, seen \cup more)

EbnfSum(toks, from) ==
    LET first == EbnfConstructor(toks, from)
    IN EbnfAttributes(toks, EbnfPipes(toks, first, first))

EbnfType(toks, from) == EbnfProduct(toks, from) \cup EbnfSum(toks, from)

\* { TypeId "=" type }
RECURSIVE EbnfDefinitions(_, _, _)
EbnfDefinitions(toks, from, seen) ==
    LET more == EbnfType(toks, EbnfTok(toks, EbnfTok(toks, from, {"TYPE_ID"}),
                                       {"EQUALS"})) \ seen
    IN IF more = {} THEN seen ELSE EbnfDefinitions(toks, more, seen \cup more)

EbnfModule(toks) ==
    LET named == EbnfTok(toks, EbnfWord(toks, {1}, KwModule),
                         {"TYPE_ID", "CONSTRUCTOR_ID"})
        open == EbnfTok(toks, named, {"LBRACE"})
    IN EbnfTok(toks, EbnfDefinitions(toks, open, open), {"RBRACE"})

\* The whole sequence is a module.
IsSentence(toks) == (Len(toks) + 1) \in EbnfModule(toks)

\* C7: on a text that tokenizes, parse returns a Module if and only if the
\* whole token sequence is a sentence of the grammar above.
C7_ParseAcceptsExactlyTheGrammar ==
    (Done /\ call = "parse" /\ TokenizesWhole(source)) =>
        ((outcome.kind = "returned") <=> IsSentence(AllTokens(source)))

\* parse returned a Module for a sentence with two definitions, a sum with
\* attributes among them, and failed on a text that is not a sentence.
C7_WitnessAccepted ==
    /\ Done
    /\ call = "parse"
    /\ TokenizesWhole(source)
    /\ IsSentence(AllTokens(source))
    /\ outcome.kind = "returned"
    /\ Len(outcome.value.dfns) = 2
    /\ \E i \in 1..2 : /\ outcome.value.dfns[i].value.cls = "Sum"
                       /\ outcome.value.dfns[i].value.attributes # <<>>

-----------------------------------------------------------------------------
(* Properties of NodeVisitor.visit *)

\* C8: when a visit procedure catches the exception of a child at its
\* suspension point and then finishes normally, the exception is over: the
\* procedure's parent is resumed by send, not by throw, and when it is the
\* root's procedure that finishes, visit returns its value.
C8_CaughtExceptionIsOver ==
    (call = "visit" /\ visitor = "UserVisitor") =>
        /\ \A i \in 1..(Len(log) - 1) :
              log[i].thrown /\ log[i].gave = "return" => ~log[i + 1].thrown
        /\ (Done /\ log # <<>> /\ log[Len(log)].gave = "return") =>
              outcome.kind = "returned"

\* A procedure below the root caught the exception of its child and finished.
C8_Witness ==
    /\ call = "visit"
    /\ visitor = "UserVisitor"
    /\ \E i \in 1..Len(log) :
          /\ log[i].thrown
          /\ log[i].gave = "return"
          /\ log[i].path # <<>>
          /\ behaviour[log[i].path] = "catch"

\* The children of a node as the description of the tree declares them.
DeclaredChildren(node) ==
    CASE node.cls = "Module" -> node.dfns
      [] node.cls = "Type" -> <<node.value>>
      [] node.cls = "Sum" -> node.types \o node.attributes
      [] node.cls = "Product" -> node.fields \o node.attributes
      [] node.cls = "Constructor" -> node.fields
      [] OTHER -> <<>>

\* The nodes of a tree in pre-order, depth first.
RECURSIVE PreOrderNodes(_)
PreOrderNodes(node) ==
    LET kids == DeclaredChildren(node)
        RECURSIVE from(_)
        from(i) == IF i > Len(kids) THEN <<>>
                   ELSE PreOrderNodes(kids[i]) \o from(i + 1)
    IN <<node>> \o from(1)

\* C9: with the generic fallback, visit starts the visit of each node once,
\* in pre-order depth-first order: at every moment the nodes started so far
\* are the first nodes of the pre-order, no node twice, and at the end they
\* are all of it and visit returns None.
C9_GenericVisitIsPreOrder ==
    (call = "visit" /\ visitor = "NodeVisitor") =>
        LET seen == [i \in 1..Len(Started) |-> NodeAt(tree, Started[i])]
            want == PreOrderNodes(tree)
        IN /\ Len(seen) <= Len(want)
           /\ seen = SubSeq(want, 1, Len(seen))
           /\ Distinct(Started)
           /\ Done => seen = want /\ outcome = Returned(None)

\* The walk of a tree of two type definitions, with a Sum that has two
\* Constructors, fields and attributes, came to its end.
C9_Witness ==
    /\ Done
    /\ call = "visit"
    /\ visitor = "NodeVisitor"
    /\ Len(tree.dfns) = 2
    /\ Len(Started) >= 8
    /\ \E path \in Nodes(tree) :
          /\ NodeAt(tree, path).cls = "Sum"
          /\ Len(NodeAt(tree, path).types) >= 2
          /\ NodeAt(tree, path).attributes # <<>>
          /\ NodeAt(tree, path).types[1].fields # <<>>

-----------------------------------------------------------------------------
(* More properties of check_tree *)

\* C11: check_tree returns normally if and only if every Constructor name
\* occurs once in the whole Module and the type of every Field is a primitive
\* or the name of a TypeDef of the Module; otherwise it raises
\* ASDLSyntaxError.
C11_CheckTreeAcceptsExactlyValidModules ==
    (Done /\ call = "check_tree") =>
        LET valid == /\ Distinct(ConstructorsInOrder(tree))
                     /\ \A path \in FieldPaths(tree) :
                           NodeAt(tree, path).type \in DefinedTypes(tree)
        IN IF valid THEN outcome = Returned(None) ELSE RaisedSyntaxError

\* check_tree returned on a Module of two type definitions with a Constructor
\* and with fields of a primitive type and of the types of the Module.
C11_Witness ==
    /\ Done
    /\ call = "check_tree"
    /\ outcome = Returned(None)
    /\ Len(tree.dfns) = 2
    /\ ConstructorsInOrder(tree) # <<>>
    /\ \E path \in FieldPaths(tree) : NodeAt(tree, path).type \in ASDL_TYPES
    /\ \E path \in FieldPaths(tree) : NodeAt(tree, path).type \in {a, b}

-----------------------------------------------------------------------------
(* More properties of generate_code *)

\* What check_tree is to accept, read off the tree.
ValidModule(t) ==
    /\ Distinct(ConstructorsInOrder(t))
    /\ \A path \in FieldPaths(t) : NodeAt(t, path).type \in DefinedTypes(t)

\* C12: generate_code runs parse, then check_tree, then the code generator.
\* The check starts only on the tree parse returned, the generator only after
\* check_tree found nothing; text is returned only at the end of a run in
\* which every stage succeeded, and it is the whole text; when parse or
\* check_tree fails the error is raised to the caller and no text was made.
C12_StagesInOrderNoPartialOutput ==
    call = "generate_code" =>
        /\ (chk # None \/ pc \in {"check_tree", "checker.visit"}) =>
              tree # None /\ par.pc = "done"
        /\ pc \in {"parse", "check_tree", "checker.visit"} => gen = None
        /\ (gen # None \/ pc \in {"code_generator", "code_generator.visit"}) =>
              /\ tree # None
              /\ chk # None
              /\ chk.error_messages = <<>>
              /\ ValidModule(tree)
        /\ outcome.kind = "returned" =>
              /\ Done
              /\ gen # None
              /\ outcome.value = gen.buffer
              /\ Len(Classes(outcome.value)) = 1 + Len(Declaring(tree))
        /\ Done =>
              /\ outcome.kind \in {"returned", "raised"}
              /\ tree = None => outcome.kind = "raised" /\ chk = None /\ gen = None
              /\ (tree # None /\ ~ValidModule(tree)) => RaisedSyntaxError /\ gen = None

\* generate_code raised the error of check_tree on a text that parses.
C12_Witness ==
    /\ Done
    /\ call = "generate_code"
    /\ tree # None
    /\ Len(tree.dfns) = 2
    /\ ~ValidModule(tree)
    /\ RaisedSyntaxError
    /\ gen = None

-----------------------------------------------------------------------------
(* tokenize(source) *)

\* The longest text given to tokenize, and the characters it is made of: a
\* lowercase and an uppercase letter, the underscore, a space, the dash, the
\* line break, an operator and a digit.
MaxText == 4

TextChars == {"a", "B", "_", " ", "-", "\n", "(", "1"}

\* Texts with a comment: something before "--", the comment's characters (at
\* most MaxComment of them), a line break, and something on the next line.
MaxComment == 2

CommentTexts ==
    { before \o <<"-", "-">> \o inside \o <<"\n">> \o after :
        before \in {<<>>, <<"a">>, <<"(", " ">>, <<"1">>},
        inside \in SeqsUpTo(TextChars, MaxComment),
        after \in {<<>>, <<"B">>, <<"1">>, <<"-", "-">>, <<"a", "-">>} }

TokenizeSources == SeqsUpTo(TextChars, MaxText) \cup CommentTexts

\* for token in tokenize(source): the caller gathers the tokens in result;
\* log keeps, with each token, where the scanner stood after it.
InitTokenize ==
    /\ call = "tokenize"
    /\ pc = "tokenize"
    /\ source \in TokenizeSources
    /\ scan = NewScan
    /\ par = [NewParser EXCEPT !.pc = "idle"]
    /\ tree = None
    /\ Quiet

\* next() runs the generator to its next yield.
TokenizeYield ==
    /\ pc = "tokenize"
    /\ LET n == tokenize(source, scan) IN
       /\ n.kind = "token"
       /\ scan' = n.scan
       /\ result' = Append(result, n.tok)
       /\ log' = Append(log, [tok |-> n.tok, scan |-> n.scan])
    /\ UNCHANGED <<call, pc, source, par, tree, visitor, behaviour, stack, exception,
                   chk, gen, outcome>>

\* next() runs the generator to its end.
TokenizeStop ==
    /\ pc = "tokenize"
    /\ LET n == tokenize(source, scan) IN
       /\ n.kind = "stop"
       /\ scan' = n.scan
       /\ outcome' = Returned(result)
    /\ pc' = "done"
    /\ UNCHANGED <<call, source, par, tree, visitor, behaviour, stack, result,
                   exception, chk, gen, log>>

\* next() runs the generator to the raise.
TokenizeRaise ==
    /\ pc = "tokenize"
    /\ LET n == tokenize(source, scan) IN
       /\ n.kind = "error"
       /\ scan' = n.scan
       /\ outcome' = Raised(n.exc)
    /\ pc' = "done"
    /\ UNCHANGED <<call, source, par, tree, visitor, behaviour, stack, result,
                   exception, chk, gen, log>>

TokenizeNext == TokenizeYield \/ TokenizeStop \/ TokenizeRaise

SpecTokenize == InitTokenize /\ [][TokenizeNext]_vars

-----------------------------------------------------------------------------
(* Properties of tokenize *)

IsIdChar(c) == IsAlpha(c) \/ c = "_"

\* C13: each identifier token is a maximal run of one letter followed by
\* letters and underscores (the characters before and after it in its line
\* are neither), and its kind is CONSTRUCTOR_ID when the first character is
\* uppercase and TYPE_ID otherwise; every token that starts with a letter is
\* such a token.
C13_IdentifiersAreMaximalRuns ==
    call = "tokenize" =>
        \A i \in 1..Len(log) :
            LET tok == log[i].tok
                line == SplitLines(source)[tok.lineno]
                end == log[i].scan.col_no
                start == end - Len(tok.value)
            IN /\ log[i].scan.line_no = tok.lineno
               /\ tok.value = SubSeq(line, start + 1, end)
               /\ (tok.kind \in ID_KINDS) = IsAlpha(tok.value[1])
               /\ tok.kind \in ID_KINDS =>
                     /\ \A k \in 2..Len(tok.value) : IsIdChar(tok.value[k])
                     /\ end < Len(line) => ~IsIdChar(line[end + 1])
                     /\ start > 0 => ~IsIdChar(line[start])
                     /\ tok.kind = IF IsUpper(tok.value[1]) THEN "CONSTRUCTOR_ID"
                                   ELSE "TYPE_ID"

\* A text with an uppercase identifier that holds an underscore and, after
\* it, a lowercase identifier.
C13_Witness ==
    /\ Done
    /\ call = "tokenize"
    /\ outcome.kind = "returned"
    /\ Len(outcome.value) = 2
    /\ outcome.value[1].kind = "CONSTRUCTOR_ID"
    /\ Len(outcome.value[1].value) = 2
    /\ outcome.value[1].value[2] = "_"
    /\ outcome.value[2].kind = "TYPE_ID"

\* The lines of the text, and in a line: the columns (from 1) where "--"
\* stands, the part before the first "--", and the characters of that part
\* that are neither whitespace, nor in an identifier, nor an operator.
Lines == SplitLines(source)

Operators == {"=", ",", "?", "|", "(", ")", "*", "{", "}"}

Dashes(line) == {c \in 1..(Len(line) - 1) : line[c] = "-" /\ line[c + 1] = "-"}

Least(S) == CHOOSE n \in S : \A k \in S : n <= k

CodeEnd(line) == IF Dashes(line) = {} THEN Len(line) ELSE Least(Dashes(line)) - 1

InIdentifier(line, c) ==
    \E s \in 1..c : IsAlpha(line[s]) /\ \A k \in s..c : IsIdChar(line[k])

BadIn(line) ==
    {c \in 1..CodeEnd(line) : /\ ~IsSpace(line[c])
                              /\ ~InIdentifier(line, c)
                              /\ line[c] \notin Operators}

ErrLines == {n \in 1..Len(Lines) : BadIn(Lines[n]) # {}}

NoSpace(s) == SelectSeq(s, LAMBDA ch : ~IsSpace(ch))

\* The text of the tokens gathered from a line, one after the other.
TokenText(n) ==
    LET toks == SelectSeq(result, LAMBDA t : t.lineno = n)
    IN Flatten([i \in 1..Len(toks) |-> toks[i].value])

\* C14: when a text holds, outside a comment, a character that is not
\* whitespace, not part of an identifier, not the start of "--" and not an
\* operator, tokenize raises ASDLSyntaxError with the first such character in
\* source order and its line number (from 1), after it gave the tokens of
\* what stands before that character and no other.
C14_FirstInvalidCharacterIsReported ==
    (Done /\ call = "tokenize" /\ ErrLines # {}) =>
        LET n == Least(ErrLines)
            c == Least(BadIn(Lines[n]))
        IN /\ outcome = Raised(ASDLSyntaxError([text |-> "Invalid operator",
                                                char |-> Lines[n][c]], n))
           /\ \A i \in 1..Len(result) : result[i].lineno <= n
           /\ \A k \in 1..(n - 1) :
                 TokenText(k) = NoSpace(SubSeq(Lines[k], 1, CodeEnd(Lines[k])))
           /\ TokenText(n) = NoSpace(SubSeq(Lines[n], 1, c - 1))

\* The error is on the second line, after a token on each line: a single
\* dash, a digit or a leading underscore.
C14_Witness ==
    /\ Done
    /\ call = "tokenize"
    /\ outcome.kind = "raised"
    /\ outcome.value.lineno = 2
    /\ Len(result) = 2
    /\ result[2].lineno = 2

\* C19: when tokenize comes to "--" in a line, it gives no token from the
\* rest of the line, raises no error for it, and goes on at the next line:
\* of such a line, and of each line after it up to the first line with an
\* invalid character, the tokens are those of the part before the line's
\* first "--"; the call returns them unless a later line has an invalid
\* character.
C19_CommentRunsToEndOfLine ==
    (Done /\ call = "tokenize") =>
        \A n \in 1..Len(Lines) :
            (Dashes(Lines[n]) # {} /\ \A k \in ErrLines : n < k) =>
                /\ outcome.kind = "raised" => outcome.value.lineno > n
                /\ ErrLines = {} => outcome = Returned(result)
                /\ \A k \in n..Len(Lines) :
                      (\A e \in ErrLines : k < e) =>
                          TokenText(k) = NoSpace(SubSeq(Lines[k], 1, CodeEnd(Lines[k])))

\* A token, a comment that holds a digit, and a token on the next line.
C19_Witness ==
    /\ Done
    /\ call = "tokenize"
    /\ Len(Lines) = 2
    /\ Dashes(Lines[1]) # {}
    /\ CodeEnd(Lines[1]) > 0
    /\ \E c \in (CodeEnd(Lines[1]) + 3)..Len(Lines[1]) : Lines[1][c] = "1"
    /\ outcome.kind = "returned"
    /\ Len(outcome.value) = 2
    /\ outcome.value[1].lineno = 1
    /\ outcome.value[2].lineno = 2

-----------------------------------------------------------------------------
(* More properties of parse *)

\* The places where the parser calls match, and the kinds each expects.
ExpectedAt ==
    [site \in {"module_name", "module_lbrace", "definition_equals", "parse_sum",
               "parse_fields", "fields_rparen", "module_rbrace"} |->
        CASE site = "module_name" -> {"TYPE_ID", "CONSTRUCTOR_ID"}
          [] site = "module_lbrace" -> {"LBRACE"}
          [] site = "definition_equals" -> {"EQUALS"}
          [] site = "parse_sum" -> {"CONSTRUCTOR_ID"}
          [] site = "parse_fields" -> {"LPAREN"}
          [] site = "fields_rparen" -> {"RPAREN"}
          [] site = "module_rbrace" -> {"RBRACE"}]

AtMatch == pc = "parse" /\ par.pc \in DOMAIN ExpectedAt /\ par.cur_token # Empty

\* match(kinds) on a token of another kind: ASDLSyntaxError with the kinds
\* expected, the kind found and the line of the current token; the cursor
\* stays.
MatchFails ==
    /\ outcome' = Raised(ASDLSyntaxError([text |-> "Unmatched",
                                          expected |-> ExpectedAt[par.pc],
                                          found |-> par.cur_token.kind],
                                         par.cur_token.lineno))
    /\ scan' = scan
    /\ par'.cur_token = par.cur_token

\* match(kinds) on a token of one of the kinds: the value of the token is what
\* the caller gets (the name of the module, the name of the constructor), and
\* the current token becomes the next token of the text, or the end of the
\* tokens.
MatchAdvances ==
    LET rest == TokensFrom(source, scan) IN
    /\ outcome'.kind # "raised"
    /\ par'.cur_token = IF rest = <<>> THEN Empty ELSE rest[1]
    /\ rest # <<>> => TokensFrom(source, scan') = Tail(rest)
    /\ par.pc = "module_name" => par'.name = par.cur_token.value
    /\ par.pc = "parse_sum" => par'.cname = par.cur_token.value

\* C15, as it is written: a match on a token of another kind fails with the
\* kinds expected, the kind found and the token's line; a match on a token of
\* an expected kind returns its value and advances by one token.
C15_MatchFailsOrAdvances ==
    [][AtMatch =>
          IF par.cur_token.kind \notin ExpectedAt[par.pc]
          THEN MatchFails ELSE MatchAdvances]_vars

\* C15, with the scanner's part: a match on a token of an expected kind
\* returns its value and advances by one token when the scanner finds the
\* next token or the end of the text; when the scanner meets an invalid
\* character first, its ASDLSyntaxError is raised from match instead.
C15_MatchFailsOrAdvancesOrScannerFails ==
    [][AtMatch =>
          IF par.cur_token.kind \notin ExpectedAt[par.pc]
          THEN MatchFails
          ELSE IF tokenize(source, scan).kind # "error"
          THEN MatchAdvances
          ELSE outcome' = Raised(tokenize(source, scan).exc)]_vars

\* parse ended in a failed match after the matches of a whole type
\* definition.
C15_Witness ==
    /\ Done
    /\ call = "parse"
    /\ RaisedSyntaxError
    /\ outcome.value.msg.text = "Unmatched"
    /\ par.defs # <<>>
    /\ par.cur_token # Empty

\* C16: in a Module for which parse and check_tree both succeeded, no two
\* TypeDefs have the same name.
C16_TypeDefNamesUnique ==
    (call = "generate_code" /\ Done /\ CheckPassed) =>
        Distinct([i \in 1..Len(tree.dfns) |-> tree.dfns[i].name])

\* parse and check_tree succeeded on a text with two type definitions.
C16_Witness ==
    /\ call = "generate_code"
    /\ pc = "code_generator"
    /\ CheckPassed
    /\ Len(tree.dfns) = 2

\* The tokens the parser has taken: all but the current one and those the
\* scanner has not given yet.
Consumed ==
    LET all == AllTokens(source)
        ahead == Len(TokensFrom(source, scan)) + (IF par.cur_token = Empty THEN 0 ELSE 1)
    IN SubSeq(all, 1, Len(all) - ahead)

\* The names of the constructors in the text, in source order: the
\* CONSTRUCTOR_ID tokens that follow "=" or "|".
ConstructorTokens(toks) ==
    LET at == {i \in 2..Len(toks) : /\ toks[i].kind = "CONSTRUCTOR_ID"
                                    /\ toks[i - 1].kind \in {"EQUALS", "PIPE"}}
        picked == SelectSeq([i \in 1..Len(toks) |-> IF i \in at THEN <<toks[i].value>>
                                                    ELSE <<>>],
                            LAMBDA w : w # <<>>)
    IN [i \in 1..Len(picked) |-> picked[i][1]]

\* The Sums of a tree in order, each as the names of its constructors.
SumsOf(t) ==
    LET sums == SelectSeq(t.dfns, LAMBDA d : d.value.cls = "Sum")
    IN [i \in 1..Len(sums) |->
          [k \in 1..Len(sums[i].value.types) |-> sums[i].value.types[k].name]]

\* C17: every Sum of a Module that parse returned has at least one
\* Constructor, and the constructors are in source order: the names of the
\* constructors of the Sums, one Sum after the other, are the constructor
\* names of the text in the order they stand there.
C17_SumsHaveConstructorsInSourceOrder ==
    (Done /\ call = "parse" /\ outcome.kind = "returned") =>
        /\ \A i \in 1..Len(SumsOf(outcome.value)) : SumsOf(outcome.value)[i] # <<>>
        /\ Flatten(SumsOf(outcome.value)) = ConstructorTokens(Consumed)

\* parse returned a Module with a Sum of two constructors of different names.
C17_Witness ==
    /\ Done
    /\ call = "parse"
    /\ outcome.kind = "returned"
    /\ \E i \in 1..Len(SumsOf(outcome.value)) :
          /\ Len(SumsOf(outcome.value)[i]) = 2
          /\ SumsOf(outcome.value)[i][1] # SumsOf(outcome.value)[i][2]

-----------------------------------------------------------------------------
(* Properties of the Checker's walk *)

\* The paths of the nodes of a class, in tree order.
PathsOf(t, cls) ==
    SelectSeq(Preorder(t, <<>>), LAMBDA path : NodeAt(t, path).cls = cls)

\* The TypeDef a node is in: the Type on its path, just below the Module.
TypeDefOf(t, path) == NodeAt(t, SubSeq(path, 1, 1)).name

\* C20: the owner the Checker records for a Field is the enclosing Constructor
\* when it is a constructor field and the enclosing TypeDef when it is a
\* Product field or an attribute; the owner it records for a Constructor is
\* the TypeDef of its Sum.  At the end of the walk: types maps each type name
\* to the owners of the Fields of that type, in tree order, and constructors
\* maps each Constructor name to the TypeDef of the first Constructor of that
\* name.
C20_OwnersRecorded ==
    (Done /\ call = "check_tree") =>
        /\ \A i \in 1..Len(chk.types) :
              LET uses == SelectSeq(PathsOf(tree, "Field"),
                                    LAMBDA path : NodeAt(tree, path).type = chk.types[i].key)
              IN chk.types[i].value = [k \in 1..Len(uses) |-> OwnerOf(tree, uses[k])]
        /\ \A i \in 1..Len(chk.constructors) :
              LET named == SelectSeq(PathsOf(tree, "Constructor"),
                                     LAMBDA path : NodeAt(tree, path).name
                                                     = chk.constructors[i].key)
              IN chk.constructors[i].value = TypeDefOf(tree, named[1])

\* The walk of a Module with a Sum of two constructors and an attribute ended.
C20_Witness ==
    /\ Done
    /\ call = "check_tree"
    /\ Len(chk.constructors) >= 2
    /\ \E i \in 1..Len(tree.dfns) :
          /\ tree.dfns[i].value.cls = "Sum"
          /\ Len(tree.dfns[i].value.types) >= 2
          /\ tree.dfns[i].value.attributes # <<>>

-----------------------------------------------------------------------------
(* Termination *)

\* The texts the four calls are run on to their end: modules that pass, a
\* redefinition and an undefined type for check_tree to report, texts that end
\* early and texts the scanner or the parser refuses.
CallDefs ==
    { <<>>,
      << <<a, EQ, X, PI, Y, LP, int, ST, x, CM, a, QU, y, RP,
           KwAttributes, LP, int, q, RP>>,
         <<b, EQ, ASTName>> >>,
      << <<a, EQ, LP, int, x, RP, KwAttributes, LP, a, QU, z, RP>>,
         <<b, EQ, Y, LP, a, x, RP>> >>,
      << <<a, EQ, Y>>, <<b, EQ, Y, LP, a, x, RP>> >>,
      << <<b, EQ, LP, bar, x, RP>> >> }

CallTexts ==
    { Join(Header \o Flatten(ds) \o <<RB>>) : ds \in CallDefs }
    \cup SpecialTexts
    \cup { Join(w) : w \in Prefixes(Header \o <<a, EQ, X, LP, a, QU, x>>) }

CallModules == { t \in CheckModules : Len(t.dfns) <= 1 }

\* Any of the four calls, run to its end.  The program is one thread that
\* neither waits nor blocks: a call that can take a step takes it.
InitCalls ==
    /\ \/ /\ call = "tokenize"
          /\ pc = "tokenize"
          /\ source \in CallTexts
          /\ scan = NewScan
          /\ par = [NewParser EXCEPT !.pc = "idle"]
          /\ tree = None
       \/ /\ call \in {"parse", "generate_code"}
          /\ pc = "parse"
          /\ source \in CallTexts
          /\ scan = NewScan
          /\ par = NewParser
          /\ tree = None
       \/ /\ call = "check_tree"
          /\ pc = "check_tree"
          /\ tree \in CallModules
          /\ NoSource
    /\ Quiet

NextCalls == TokenizeNext \/ Next

SpecCalls == InitCalls /\ [][NextCalls]_vars /\ WF_vars(NextCalls)

\* The scanner's cursor, ordered by line and then by column.
ScanBefore(s, t) ==
    \/ s.line_no < t.line_no
    \/ s.line_no = t.line_no /\ s.col_no < t.col_no

\* The positions of the parser, each loop's test after the steps of its body
\* that consume nothing.
ParserPositions ==
    << "parse", "parse_module", "module_name", "module_lbrace", "definition_equals",
       "parse_type", "parse_sum", "parse_optional_fields", "sum_pipe",
       "parse_optional_attributes", "parse_fields", "parse_optional_field_quantifier",
       "field_id", "fields_separator", "fields_loop", "fields_rparen",
       "parse_definitions", "module_rbrace" >>

PositionOf(name) == CHOOSE i \in 1..Len(ParserPositions) : ParserPositions[i] = name

\* A step of the scanner moves its cursor forward.
ScannerMovesForward ==
    /\ scan' # scan => ScanBefore(scan, scan')
    /\ (pc = "tokenize" /\ result' # result) => scan' # scan

\* A step of the parser takes the next token from the scanner, whose cursor
\* moves forward or which is at its end, or it leaves the token in place and
\* goes on to a later position of the same iteration: a loop comes back to
\* its test only with a token consumed.
ParserConsumes ==
    (pc = "parse" /\ pc' = "parse") =>
        \/ ScanBefore(scan, scan')
        \/ scan' = scan /\ par.cur_token # Empty /\ par'.cur_token = Empty
        \/ /\ scan' = scan
           /\ par'.cur_token = par.cur_token
           /\ PositionOf(par'.pc) > PositionOf(par.pc)

\* C18: tokenize, parse, check_tree and generate_code each terminate, with a
\* result or an error, on every finite input: every call comes to its end
\* with the trampoline's stack empty and an outcome for its caller, every
\* scanner step moves the cursor forward, and every parser step that consumes
\* no token moves on within its loop iteration.
C18_EveryCallTerminates ==
    /\ <>Done
    /\ [](Done => stack = <<>> /\ outcome # Running)
    /\ [][ScannerMovesForward /\ ParserConsumes]_vars

\* generate_code came to its end on a text of two definitions with fields:
\* the scanner, both parser loops and two walks of the tree were run through.
C18_Witness ==
    /\ Done
    /\ call = "generate_code"
    /\ outcome.kind = "returned"
    /\ Len(tree.dfns) = 2
    /\ \E i \in 1..2 : /\ tree.dfns[i].value.cls = "Sum"
                       /\ \E k \in 1..Len(tree.dfns[i].value.types) :
                             Len(tree.dfns[i].value.types[k].fields) >= 2

-----------------------------------------------------------------------------
(* Properties of the stack of NodeVisitor.visit *)

IsPrefix(s, t) == Len(s) <= Len(t) /\ SubSeq(t, 1, Len(s)) = s

\* The resumptions of the procedure of a node after resumption i.
LaterOf(path, i) == {j \in (i + 1)..Len(log) : log[j].path = path}

\* C21: a visit procedure that yields a child node is resumed next with
\* exactly the value the child's procedure returned, only after the visit of
\* the child's whole subtree has finished and before any other child of the
\* same parent is started: between the yield and the next resumption of the
\* parent only the child and its descendants run, the last of them is the
\* child finishing, and when it finished by returning, the parent is resumed
\* by send with the returned value.
C21_ResumedWithChildResult ==
    call = "visit" =>
        \A i \in 1..(Len(log) - 1) :
            (log[i].gave = "yield" /\ LaterOf(log[i].path, i) # {}) =>
                LET child == log[i + 1].path
                    later == LaterOf(log[i].path, i)
                    j == CHOOSE n \in later : \A o \in later : n <= o
                IN /\ Len(child) = Len(log[i].path) + 1
                   /\ \A k \in (i + 1)..(j - 1) : IsPrefix(child, log[k].path)
                   /\ log[j - 1].path = child
                   /\ log[j - 1].gave \in {"return", "raise"}
                   /\ log[j - 1].gave = "return" =>
                         ~log[j].thrown /\ log[j].sent = log[j - 1].value

\* A procedure two levels up was resumed after its child, which has children
\* of its own, returned.
C21_Witness ==
    /\ call = "visit"
    /\ \E i \in 2..Len(log) :
          /\ log[i - 1].gave = "return"
          /\ Len(log[i - 1].path) = Len(log[i].path) + 1
          /\ iter_child_nodes(NodeAt(tree, log[i - 1].path)) # <<>>

\* The stack holds the procedures of the nodes from the root down to the node
\* being visited.
StackIsPath ==
    \A k \in 1..Len(stack) : stack[k].path = SubSeq(Top.path, 1, k - 1)

\* The first resumption of every procedure is send(None): nothing is thrown
\* into a procedure that has not run yet.
FreshOnTop ==
    \A i \in 1..Len(log) :
        (\A j \in 1..(i - 1) : log[j].path # log[i].path) =>
            log[i].starting /\ ~log[i].thrown /\ log[i].sent = None

\* One iteration of the loop: the top procedure is the one resumed; the stack
\* grows by the procedure of the node it yielded, a child of its own, or
\* loses the top procedure, which finished or failed.
StackStep ==
    log' # log =>
        LET e == log'[Len(log')] IN
        /\ stack # <<>>
        /\ log' = Append(log, e)
        /\ e.path = Top.path
        /\ \/ /\ e.gave = "yield"
              /\ Len(stack') = Len(stack) + 1
              /\ \A k \in 1..Len(stack) : stack'[k].path = stack[k].path
              /\ \E n \in 1..Len(iter_child_nodes(NodeAt(tree, Top.path))) :
                    stack'[Len(stack')] = Frame(Append(Top.path, n))
           \/ /\ e.gave \in {"return", "raise"}
              /\ stack' = SubSeq(stack, 1, Len(stack) - 1)

\* C22: at every step of NodeVisitor.visit the stack holds exactly the
\* suspended procedures of the nodes on the path from the root to the node
\* being visited, in that order; only the top procedure is resumed; a
\* procedure is pushed only on top of the one that yielded its node and
\* removed only from the top, when it finished or failed; a newly pushed
\* procedure is first resumed with None and no pending exception; and the
\* stack changes in no other way once the root's procedure is on it.
C22_StackIsThePathFromTheRoot ==
    /\ [](call = "visit" => StackIsPath /\ FreshOnTop)
    /\ [][call = "visit" => /\ StackStep
                            /\ (log' = log /\ stack' # stack) =>
                                  (pc = "visit.begin" /\ stack' = <<Frame(<<>>)>>)]_vars

\* Three procedures are suspended below a fourth that was just pushed.
C22_Witness ==
    /\ call = "visit"
    /\ Len(stack) = 4
    /\ ~Top.started
    /\ Len(log) >= 5

\* Resumption i is a procedure raising of its own accord, below ancestors none
\* of which handles an exception.
Unhandled(i) ==
    /\ log[i].gave = "raise"
    /\ ~log[i].thrown
    /\ \A k \in 0..(Len(log[i].path) - 1) :
          behaviour[SubSeq(log[i].path, 1, k)] = "generic"

\* C23: when a visit procedure raises an exception that no procedure on the
\* stack handles, the exception is thrown into each suspended ancestor in
\* turn from the innermost outward and leaves each of them, no procedure of
\* another node is resumed afterwards, the stack ends empty and visit raises
\* that same exception to its caller.
C23_UnhandledExceptionAbortsTheWalk ==
    (call = "visit" /\ visitor = "UserVisitor") =>
        \A i \in 1..Len(log) :
            Unhandled(i) =>
                LET from == log[i].path
                    after == Len(log) - i
                IN /\ after <= Len(from)
                   /\ \A k \in 1..after :
                         /\ log[i + k].path = SubSeq(from, 1, Len(from) - k)
                         /\ log[i + k].thrown
                         /\ log[i + k].sent = log[i].value
                         /\ log[i + k].gave = "raise"
                         /\ log[i + k].value = log[i].value
                   /\ Len(stack) = Len(from) - after
                   /\ exception = log[i].value
                   /\ Done => /\ after = Len(from)
                              /\ stack = <<>>
                              /\ outcome = Raised(log[i].value)
                   /\ \A n \in (i + 1)..Len(log) : ~log[n].starting

\* visit ended by raising the exception of a procedure three levels down.
C23_Witness ==
    /\ Done
    /\ call = "visit"
    /\ visitor = "UserVisitor"
    /\ \E i \in 1..Len(log) : Unhandled(i) /\ Len(log[i].path) >= 3

-----------------------------------------------------------------------------
(* Properties of the parser and its scanner *)

\* Where the scanner stands after it gave the first n tokens of a text.
RECURSIVE ScanAfter(_, _)
ScanAfter(src, n) ==
    IF n = 0 THEN NewScan ELSE tokenize(src, ScanAfter(src, n - 1)).scan

\* What the scanner does after the last token of a text: it stops or raises.
ScanLast(src) == tokenize(src, ScanAfter(src, Len(AllTokens(src))))

\* The parser holds the token after those it consumed, and the scanner stands
\* right behind that token; or the parser holds the end of the tokens and
\* the scanner is through the text.
OneTokenAhead ==
    LET all == AllTokens(source)
        k == Len(Consumed)
    IN IF par.cur_token # Empty
       THEN /\ k < Len(all)
            /\ par.cur_token = all[k + 1]
            /\ scan = ScanAfter(source, k + 1)
       ELSE /\ k = Len(all)
            /\ ScanLast(source).kind = "stop"
            /\ scan = ScanLast(source).scan

\* The scanner stands right behind the current token: the characters before
\* its cursor, on the token's line, are the token; or the tokens are at their
\* end and the scanner is through the text.
BehindCurrent ==
    LET lines == Lines
        from == scan.col_no - Len(par.cur_token.value)
    IN IF par.cur_token = Empty THEN scan.line_no > Len(lines)
       ELSE /\ scan.line_no = par.cur_token.lineno
            /\ scan.line_no <= Len(lines)
            /\ from >= 0
            /\ SubSeq(lines[scan.line_no], from + 1, scan.col_no) = par.cur_token.value

\* The error that left parse is the first violation of the text.  An error of
\* the scanner is the one tokenize itself ends with on that text, about its
\* first invalid character; every token before that character was taken by
\* the parser, and the scanner stands at that character.  An error of the
\* grammar is about the token after the consumed ones, the last the scanner
\* gave and one of the tokens before any invalid character: no character
\* behind it was read.
FailsAtFirstViolation ==
    (call = "parse" /\ Done /\ RaisedSyntaxError) =>
        IF outcome.value.msg.text = "Invalid operator"
        THEN LET last == ScanLast(source)
                 all == AllTokens(source)
             IN /\ last.kind = "error"
                /\ outcome.value = last.exc
                /\ scan = last.scan
                /\ Consumed = SubSeq(all, 1, Len(all) - 1)
                /\ all # <<>> => par.cur_token = all[Len(all)]
        ELSE /\ OneTokenAhead
             /\ par.cur_token # Empty
             /\ outcome.value.lineno = par.cur_token.lineno
             /\ outcome.value.msg.found =
                   IF outcome.value.msg.text = "Unmatched"
                   THEN par.cur_token.kind ELSE par.cur_token.value

\* C24: when parse fails on a text the error it reports is the violation,
\* lexical or grammatical, that comes first in source order, and the scanner
\* has read nothing past it: at every moment after the first token was taken
\* the scanner is exactly one token ahead of the tokens consumed, standing
\* right behind the current token.
C24_FirstViolationIsReported ==
    /\ (call = "parse" /\ pc = "parse" /\ par.pc # "parse") => BehindCurrent
    /\ FailsAtFirstViolation

\* parse failed on a token that the grammar refuses, with an invalid
\* character behind it that the scanner never came to.
C24_Witness ==
    /\ Done
    /\ call = "parse"
    /\ RaisedSyntaxError
    /\ outcome.value.msg.text = "Unmatched"
    /\ ScanLast(source).kind = "error"

\* The fields written from token i of a field list on: a type identifier, the
\* "?" or "*" directly behind it if there is one, the identifier behind that
\* if there is one, and the fields behind the comma, if any, that follows.
RECURSIVE FieldsWritten(_, _)
FieldsWritten(toks, i) ==
    IF i > Len(toks) \/ toks[i].kind # "TYPE_ID" THEN <<>>
    ELSE LET has(n, kinds) == n <= Len(toks) /\ toks[n].kind \in kinds
             quantifier == IF has(i + 1, {"QUESTION"}) THEN "OPT"
                           ELSE IF has(i + 1, {"ASTERISK"}) THEN "SEQ"
                           ELSE QNone
             n == IF quantifier = QNone THEN i + 1 ELSE i + 2
             name == IF has(n, {"TYPE_ID", "CONSTRUCTOR_ID"}) THEN toks[n].value ELSE None
             o == IF name = None THEN n ELSE n + 1
         IN <<Field(toks[i].value, name, quantifier)>>
            \o FieldsWritten(toks, IF has(o, {"COMMA"}) THEN o + 1 ELSE o)

\* The fields of all the field lists of a text, list after list.
AllFieldsWritten(toks) ==
    Flatten([i \in 1..Len(toks) |->
                IF toks[i].kind = "LPAREN" THEN FieldsWritten(toks, i + 1) ELSE <<>>])

\* A type identifier of a field with two quantifier tokens behind it.
TwoQuantifiers(toks) ==
    \E i \in 2..(Len(toks) - 2) :
        /\ toks[i - 1].kind \in {"LPAREN", "COMMA"}
        /\ toks[i].kind = "TYPE_ID"
        /\ toks[i + 1].kind \in {"QUESTION", "ASTERISK"}
        /\ toks[i + 2].kind \in {"QUESTION", "ASTERISK"}

\* C25: for every field of a parsed field list the quantifier is OPTIONAL
\* exactly when "?" directly follows the type identifier, SEQUENCE exactly
\* when "*" does and none otherwise, and the name is the identifier, TypeId or
\* ConstructorId, that follows, or absent: the Fields of the Module are, in
\* order, the fields as they are written in the tokens consumed.  A text in
\* which the parser comes to a field with two quantifier tokens is refused
\* with ASDLSyntaxError.
C25_FieldsAsWritten ==
    (call = "parse" /\ Done) =>
        /\ outcome.kind = "returned" =>
              LET paths == PathsOf(outcome.value, "Field")
              IN [i \in 1..Len(paths) |-> NodeAt(outcome.value, paths[i])]
                    = AllFieldsWritten(Consumed)
        /\ TwoQuantifiers(Consumed \o <<par.cur_token>>) =>
              RaisedSyntaxError /\ outcome.value.msg.text = "Unmatched"

\* parse returned a Module with an optional field, a sequence field, a plain
\* field and a field named like a constructor.
C25_Witness ==
    /\ Done
    /\ call = "parse"
    /\ outcome.kind = "returned"
    /\ LET paths == PathsOf(outcome.value, "Field")
           fs == {NodeAt(outcome.value, paths[i]) : i \in 1..Len(paths)}
       IN /\ \E f \in fs : f.quantifier = "OPT" /\ f.name # None
          /\ \E f \in fs : f.quantifier = "SEQ"
          /\ \E f \in fs : f.quantifier = QNone /\ f.name = Y

-----------------------------------------------------------------------------
(* Properties of the generated text *)

\* The name and the base of the classes a Module asks for, read off its
\* definitions: the class of a TypeDef, then the classes of the Constructors
\* of its Sum.
HeadsOf(t) ==
    Flatten([d \in 1..Len(t.dfns) |->
        LET dfn == t.dfns[d] IN
        <<[name |-> dfn.name, base |-> ASTName]>> \o
        (IF dfn.value.cls = "Sum"
         THEN [c \in 1..Len(dfn.value.types) |->
                  [name |-> dfn.value.types[c].name, base |-> dfn.name]]
         ELSE <<>>)])

HeadsIn(buffer) ==
    [i \in 1..Len(buffer) |-> [name |-> buffer[i].name, base |-> buffer[i].base]]

\* C26: the generated text is the imports and the root class AST, then for
\* each TypeDef in source order one class named after the TypeDef with the
\* base AST, directly followed by one class for each Constructor of its Sum,
\* in source order, each with the TypeDef's name as its only base.
C26_PreambleThenTypesWithTheirConstructors ==
    (Done /\ call = "code_generator" /\ outcome.kind = "returned") =>
        LET buffer == GeneratedText IN
        /\ Len(buffer) >= 2
        /\ buffer[1] = Imports
        /\ buffer[2] = RootClass
        /\ HeadsIn(SubSeq(buffer, 3, Len(buffer))) = HeadsOf(tree)

\* The text generated for a Sum of two Constructors followed by another Sum
\* with a Constructor.
C26_Witness ==
    /\ Done
    /\ call = "code_generator"
    /\ outcome.kind = "returned"
    /\ Len(tree.dfns) = 2
    /\ tree.dfns[1].value.cls = "Sum"
    /\ Len(tree.dfns[1].value.types) = 2
    /\ tree.dfns[2].value.cls = "Sum"
    /\ tree.dfns[1].name # tree.dfns[2].name

\* The parameters of a class behind self, as kind and name; none when the
\* class has no __init__.
ParamNames(class) ==
    IF class.init = None THEN <<>>
    ELSE [i \in 1..(Len(class.init.params) - 1) |->
             <<class.init.params[i + 1].kind, class.init.params[i + 1].name>>]

FieldParams(fields) == [i \in 1..Len(fields) |-> <<"param", Str(fields[i].name)>>]

\* C27: the attributes handed down to Constructors never pass from one type
\* definition to another.  The parameters of the class of a Constructor of a
\* Sum without attributes are its own fields and nothing else, whatever Sums
\* or Products with attributes were written earlier in the Module; those of a
\* Constructor of a Sum with attributes are its own fields, the marker "*" and
\* the attributes of that Sum.
C27_AttributesStayWithTheirSum ==
    (Done /\ call = "code_generator" /\ outcome.kind = "returned") =>
        \A d \in 1..Len(tree.dfns) :
            LET sum == tree.dfns[d].value IN
            sum.cls = "Sum" =>
                \A c \in 1..Len(sum.types) :
                    ParamNames(ClassOf(GeneratedText, tree, <<d, 1, c>>)) =
                        FieldParams(sum.types[c].fields) \o
                        (IF sum.attributes = <<>> THEN <<>>
                         ELSE <<<<"*", None>>>> \o FieldParams(sum.attributes))

\* A Sum without attributes, with a Constructor that has fields and one that
\* has none, was written after a Sum with attributes.
C27_Witness ==
    /\ Done
    /\ call = "code_generator"
    /\ outcome.kind = "returned"
    /\ Len(tree.dfns) = 2
    /\ tree.dfns[1].value.cls = "Sum"
    /\ tree.dfns[1].value.attributes # <<>>
    /\ tree.dfns[2].value.cls = "Sum"
    /\ tree.dfns[2].value.attributes = <<>>
    /\ \E c \in 1..Len(tree.dfns[2].value.types) : tree.dfns[2].value.types[c].fields = <<>>
    /\ \E c \in 1..Len(tree.dfns[2].value.types) : tree.dfns[2].value.types[c].fields # <<>>

\* The fields of a declaring node that become parameters of its class: its own
\* fields, and the attributes that apply to it, which for a Constructor are
\* those of its Sum.
OwnFields(node) == IF node.cls = "Sum" THEN <<>> ELSE node.fields

ApplicableAttributes(t, path) ==
    IF NodeAt(t, path).cls = "Constructor"
    THEN NodeAt(t, Parent(path)).attributes
    ELSE NodeAt(t, path).attributes

\* C28: the class of a Sum, Product or Constructor has an __init__ exactly
\* when it has a parameter besides self, that is when the node has a field of
\* its own or an attribute applies to it; a class with neither has none.
C28_InitOnlyWithParameters ==
    (Done /\ call = "code_generator" /\ outcome.kind = "returned") =>
        LET ds == Declaring(tree) IN
        \A i \in 1..Len(ds) :
            LET class == ClassOf(GeneratedText, tree, ds[i])
                needed == \/ OwnFields(NodeAt(tree, ds[i])) # <<>>
                          \/ ApplicableAttributes(tree, ds[i]) # <<>>
            IN /\ (class.init # None) = needed
               /\ class.init # None =>
                     /\ Len(class.init.params) > 1
                     /\ class.init.body # <<>>

\* The text generated for a Module with a Sum, a Product and a Constructor
\* that have neither fields nor attributes and a Constructor that has fields.
C28_Witness ==
    /\ Done
    /\ call = "code_generator"
    /\ outcome.kind = "returned"
    /\ LET ds == Declaring(tree)
           none(i) == /\ OwnFields(NodeAt(tree, ds[i])) = <<>>
                      /\ ApplicableAttributes(tree, ds[i]) = <<>>
       IN /\ \E i \in 1..Len(ds) : NodeAt(tree, ds[i]).cls = "Sum" /\ none(i)
          /\ \E i \in 1..Len(ds) : NodeAt(tree, ds[i]).cls = "Product" /\ none(i)
          /\ \E i \in 1..Len(ds) : NodeAt(tree, ds[i]).cls = "Constructor" /\ none(i)
          /\ \E i \in 1..Len(ds) :
                /\ NodeAt(tree, ds[i]).cls = "Constructor"
                /\ NodeAt(tree, ds[i]).fields # <<>>

-----------------------------------------------------------------------------
(* The tree during check_tree and the generator's walk *)

\* The steps of check_tree and of the generator's run, begin and end included.
InAPass == pc \in {"check_tree", "checker.visit", "code_generator", "code_generator.visit"}

\* C29: check_tree and the walk of the code generator leave the Module as
\* parse returned it: no step of either pass, up to its return or its raise,
\* changes a node, a field value or the order of the children of the tree.
C29_PassesLeaveTheTreeUnchanged ==
    [][InAPass => tree' = tree]_vars

\* Both passes ran on a Module with attributes and constructors, and
\* generate_code returned.
C29_Witness ==
    /\ Done
    /\ call = "generate_code"
    /\ outcome.kind = "returned"
    /\ tree # None
    /\ Len(tree.dfns) = 2
    /\ tree.dfns[1].value.attributes # <<>>
    /\ \E path \in Nodes(tree) : NodeAt(tree, path).cls = "Constructor"

-----------------------------------------------------------------------------
(* The word "attributes" *)

\* How often a word is written in a text, and how often it is an identifier
\* of a Module: its name, the name of a TypeDef, the type or name of a Field.
WrittenTimes(src, word) ==
    LET toks == AllTokens(src) IN Cardinality({i \in 1..Len(toks) : toks[i].value = word})

IdentifierTimes(t, word) ==
    LET count(S) == Cardinality(S)
        types == PathsOf(t, "Type")
        fields == PathsOf(t, "Field")
    IN (IF t.name = word THEN 1 ELSE 0)
       + count({i \in 1..Len(types) : NodeAt(t, types[i]).name = word})
       + count({i \in 1..Len(fields) : NodeAt(t, fields[i]).type = word})
       + count({i \in 1..Len(fields) : NodeAt(t, fields[i]).name = word})

AttributeLists(t) ==
    LET ds == Preorder(t, <<>>)
    IN Cardinality({i \in 1..Len(ds) :
                      /\ NodeAt(t, ds[i]).cls \in {"Sum", "Product"}
                      /\ NodeAt(t, ds[i]).attributes # <<>>})

\* C30: "attributes" is not a reserved word.  parse returns a Module for every
\* sentence of the grammar in which "attributes" is written, and in the
\* Module each "attributes" of the text is either the start of the attribute
\* list of a Sum or Product or an ordinary identifier: the name of a TypeDef,
\* the type of a Field or the name of a Field.
C30_AttributesIsAnOrdinaryIdentifier ==
    (call = "parse" /\ Done /\ TokenizesWhole(source) /\ IsSentence(AllTokens(source))
        /\ WrittenTimes(source, KwAttributes) > 0) =>
        /\ outcome.kind = "returned"
        /\ IdentifierTimes(outcome.value, KwAttributes) + AttributeLists(outcome.value)
              = WrittenTimes(source, KwAttributes)

\* parse ended on a sentence in which a type definition named "attributes"
\* follows the constructors of a Sum.
C30_Witness ==
    /\ Done
    /\ call = "parse"
    /\ TokenizesWhole(source)
    /\ IsSentence(AllTokens(source))
    /\ LET toks == AllTokens(source) IN
       \E i \in 2..(Len(toks) - 1) :
          /\ toks[i - 1].kind = "CONSTRUCTOR_ID"
          /\ toks[i].value = KwAttributes
          /\ toks[i + 1].kind = "EQUALS"

====
